---- MODULE Spec2Model ----
(***************************************************************************)
(* Compliance Command Center: the store-compliance-event function, its     *)
(* daily analytics rollup, and the audit-export cron with its hash chain.  *)
(*                                                                         *)
(* Time is a tick counter `now`; Date.now(), new Date().toISOString() and  *)
(* the MySQL timestamp all read it.  DayOf(t) is the calendar date of a    *)
(* tick.  A SHA-256 digest is modelled as the pair of what was hashed      *)
(* (collision free), the JSON text of an object as the object with its     *)
(* keys in insertion order.                                                *)
(***************************************************************************)
EXTENDS Integers, Sequences, FiniteSets, TLC

(* ------------------------------ bounds -------------------------------- *)
MaxClock == 4
TicksPerDay == 2
MaxRequests == 2
MaxRuns == 2
MaxPredictionRows == 1
\* the last clock reading at which predict-risks is called
MaxPredictClock == 0

(* --------------------------- JavaScript values ------------------------ *)
Undefined == "undefined"
Null == "null"
NoTime == -1
\* the JSON number 0, kept apart from the string "0"
JsonZero == "#0"
Falsy(x) == x \in {Undefined, Null, "", JsonZero}
\* String(x)
JsString(x) == IF x = JsonZero THEN "0" ELSE x
OrElse(x, d) == IF Falsy(x) THEN d ELSE x
TimeOrElse(t, d) == IF t = NoTime THEN d ELSE t
DayOf(t) == t \div TicksPerDay

(* ------------------------------ inputs -------------------------------- *)
Channels == {"c1", "c2"}
MessageIds == {"m1"}
Regulations == {Undefined}
RiskLevels == {"High"}
EventTypes == {"approval"}

Payload(c, m, reg, risk, type) ==
  [channel_id |-> c, message_id |-> m, project_id |-> Undefined,
   regulation |-> reg, risk_level |-> risk, event_type |-> type,
   timestamp |-> NoTime, user_id |-> "u1", user_name |-> "alice",
   message_text |-> "text", evidence_url |-> Undefined]

Payloads ==
  { Payload(c, m, reg, risk, type) :
      c \in Channels, m \in MessageIds, reg \in Regulations,
      risk \in RiskLevels, type \in EventTypes }
  \cup { Payload("c1", Undefined, Undefined, "High", "approval") }

NoPayload == Payload(Undefined, Undefined, Undefined, Undefined, Undefined)

\* Flattened key/value form: every value that is present travels as text.
FormText(x) == IF x = JsonZero THEN "0" ELSE x

FormEncode(p) ==
  [f \in DOMAIN p |-> IF f = "timestamp" THEN p[f] ELSE FormText(p[f])]

\* A request carries its fields as a JSON body or as flattened arguments.
BodyRequest(p) == [body |-> p, args |-> NoPayload]
FormRequest(p) == [body |-> NoPayload, args |-> FormEncode(p)]

Requests ==
  { BodyRequest(p) : p \in Payloads } \cup { FormRequest(p) : p \in Payloads }

\* the requests sent to the req/res file: those with a JSON body
BodyRequests == { req \in Requests : req.body # NoPayload }

(* ------------------------------- state -------------------------------- *)
VARIABLES
  now,                  \* the clock
  deployed,             \* which store-compliance-event file is deployed
  compliance_events,    \* table: sequence of rows, ROWID = index
  compliance_analytics, \* table: sequence of rollup rows
  audit_logs,           \* table: sequence of Audit Records in insertion order
  predict_calls,        \* predict-risks executions requested, by project
  risk_predictions,     \* table: sequence of prediction rows
  reqs,                 \* the answers of the store-compliance-event invocations
  jobs,                 \* updateAnalytics invocations in progress or finished
  observed,             \* what the last caller of a read function was answered
  runs                  \* audit-export invocations

vars == <<now, deployed, compliance_events, compliance_analytics, audit_logs,
          predict_calls, risk_predictions, reqs, jobs, observed, runs>>

Runs == 1..MaxRuns

(* ------------------- store-compliance-event: decoding ------------------ *)
HasRequiredFields(eventData) ==
  ~Falsy(eventData.channel_id) /\ ~Falsy(eventData.message_id)

\* a variant of Method 2 that leaves project_id out of the arguments it reads
DecodeBasicIODroppingProject(req) ==
  IF HasRequiredFields(req.body) THEN req.body
  ELSE IF HasRequiredFields(req.args)
       THEN [req.args EXCEPT !.project_id = Undefined]
       ELSE req.body

\* Method 1 takes the JSON body; Method 2 falls back to the flattened
\* arguments when the body lacks channel_id or message_id.
DecodeBasicIO(req) ==
  IF HasRequiredFields(req.body) THEN req.body
  ELSE IF HasRequiredFields(req.args) THEN req.args
  ELSE req.body

\* const eventData = req.body
DecodeReqRes(req) == req.body

(* --------------------- store-compliance-event: rows -------------------- *)
GenerateEventId(t) == t

RowBasicIO(eventData, t) ==
  [event_id |-> GenerateEventId(t),
   timestamp |-> NoTime,
   time_stamp |-> TimeOrElse(eventData.timestamp, t),
   channel_id |-> JsString(eventData.channel_id),
   message_id |-> JsString(eventData.message_id),
   user_id |-> JsString(OrElse(eventData.user_id, "")),
   user_name |-> JsString(OrElse(eventData.user_name, "")),
   event_type |-> OrElse(eventData.event_type, Null),
   regulation |-> JsString(OrElse(eventData.regulation, "General")),
   risk_level |-> JsString(OrElse(eventData.risk_level, "Low")),
   message_text |-> JsString(OrElse(eventData.message_text, "")),
   evidence_url |-> OrElse(eventData.evidence_url, Null),
   project_id |->
     JsString(OrElse(eventData.project_id, eventData.channel_id)),
   status |-> "Pending Review",
   created_at |-> t]

InferProjectId(channelId) == channelId

RowReqRes(eventData, t) ==
  [event_id |-> GenerateEventId(t),
   timestamp |-> TimeOrElse(eventData.timestamp, t),
   time_stamp |-> NoTime,
   channel_id |-> eventData.channel_id,
   message_id |-> eventData.message_id,
   user_id |-> eventData.user_id,
   user_name |-> eventData.user_name,
   event_type |-> eventData.event_type,
   regulation |-> eventData.regulation,
   risk_level |-> eventData.risk_level,
   message_text |-> eventData.message_text,
   evidence_url |-> eventData.evidence_url,
   project_id |-> OrElse(eventData.project_id,
                         InferProjectId(eventData.channel_id)),
   status |-> "Pending Review",
   created_at |-> t]

\* a variant that writes over the newest row
InsertEventRowOverwriting(table, row) ==
  IF table = <<>> THEN <<row>> ELSE [table EXCEPT ![Len(table)] = row]

InsertEventRow(table, row) == Append(table, row)

IsHighRisk(row) == row.risk_level \in {"High", "Critical"}

(* ------------------------- updateAnalytics ----------------------------- *)
Min(a, b) == IF a < b THEN a ELSE b
Max(a, b) == IF a > b THEN a ELSE b

\* a variant without the clamp to [0, 100]
calculateComplianceScoreUnclamped(total, highRisk, pending) ==
  100 - highRisk * 5 - pending * 3

\* a variant with the two weights exchanged
calculateComplianceScoreSwapped(total, highRisk, pending) ==
  Max(0, Min(100, 100 - highRisk * 3 - pending * 5))

calculateComplianceScore(totalEvents, highRiskCount, pendingApprovals) ==
  Max(0, Min(100, 100 - highRiskCount * 5 - pendingApprovals * 3))

\* SELECT * FROM compliance_events WHERE project_id = p AND created_at in day
TodaysEvents(table, projectId, today) ==
  SelectSeq(table, LAMBDA e : e.project_id = projectId
                              /\ DayOf(e.created_at) = today)

\* counts keyed in first-occurrence order, as JSON.stringify prints them
RECURSIVE CountInto(_, _)
CountInto(counts, keys) ==
  IF keys = <<>> THEN counts
  ELSE LET at == { i \in DOMAIN counts : counts[i][1] = Head(keys) }
       IN IF at = {}
          THEN CountInto(Append(counts, <<Head(keys), 1>>), Tail(keys))
          ELSE LET i == CHOOSE j \in at : TRUE
               IN CountInto([counts EXCEPT ![i][2] = @ + 1], Tail(keys))

CountsInOrder(keys) == CountInto(<<>>, keys)

AnalyticsData(events, projectId, today) ==
  LET totalEvents == Len(events)
      highRiskCount == Len(SelectSeq(events, IsHighRisk))
      pendingApprovals ==
        Len(SelectSeq(events, LAMBDA e : e.event_type = "approval"
                                         /\ e.status = "Pending Review"))
  IN [project_id |-> projectId,
      date |-> today,
      total_events |-> totalEvents,
      compliance_score |->
        calculateComplianceScore(totalEvents, highRiskCount, pendingApprovals),
      high_risk_count |-> highRiskCount,
      pending_approvals |-> pendingApprovals,
      events_by_type |->
        CountsInOrder([i \in DOMAIN events |-> events[i].event_type]),
      events_by_regulation |->
        CountsInOrder([i \in DOMAIN events |-> events[i].regulation])]

\* ROWIDs of the rollup rows of (projectId, today)
ExistingAnalytics(table, projectId, today) ==
  { i \in DOMAIN table : table[i].project_id = projectId
                         /\ table[i].date = today }

UpdateAnalyticsRow(table, rowid, data) == [table EXCEPT ![rowid] = data]

InsertAnalyticsRow(table, data) == Append(table, data)

(* ------------------------------ audit export --------------------------- *)
GenesisHash ==
  <<"0000000000000000000000000000000000000000000000000000000000000000">>

\* sha256(auditJson + previousHash), as what went into it
Sha256Hex(auditJson, previousHash) == <<auditJson, previousHash>>

\* The "::"-free pieces of a string, with the separators between them.
Tokens(str) ==
  IF str = "a::b" THEN <<"a", "::", "b">> ELSE <<str>>

\* `${project_id}::${regulation}`
GroupKey(event) ==
  Tokens(event.project_id) \o <<"::">> \o Tokens(event.regulation)

\* key.split("::"): the pieces between the separators
RECURSIVE SplitOnSeparator(_, _)
SplitOnSeparator(tokens, piece) ==
  IF tokens = <<>> THEN <<piece>>
  ELSE IF Head(tokens) = "::"
       THEN <<piece>> \o SplitOnSeparator(Tail(tokens), "")
       ELSE SplitOnSeparator(Tail(tokens), Head(tokens))

SplitKey(key) == SplitOnSeparator(key, "")

\* groups[key].push(event); Object.entries lists keys in insertion order
RECURSIVE GroupInto(_, _)
GroupInto(groups, events) ==
  IF events = <<>> THEN groups
  ELSE LET event == Head(events)
           key == GroupKey(event)
           at == { i \in DOMAIN groups : groups[i].key = key }
       IN IF at = {}
          THEN GroupInto(Append(groups, [key |-> key, events |-> <<event>>]),
                         Tail(events))
          ELSE LET i == CHOOSE j \in at : TRUE
               IN GroupInto([groups EXCEPT ![i].events = Append(@, event)],
                            Tail(events))

groupEventsByProjectAndRegulation(events) == GroupInto(<<>>, events)

\* new Date(a.timestamp) - new Date(b.timestamp); NaN when a timestamp is
\* missing, which Array.prototype.sort takes as 0
CompareTimestamps(a, b) ==
  IF a.timestamp = NoTime \/ b.timestamp = NoTime THEN 0
  ELSE a.timestamp - b.timestamp

\* Array.prototype.sort is stable
RECURSIVE InsertSorted(_, _)
InsertSorted(sorted, e) ==
  IF sorted = <<>> THEN <<e>>
  ELSE IF CompareTimestamps(Head(sorted), e) <= 0
       THEN <<Head(sorted)>> \o InsertSorted(Tail(sorted), e)
       ELSE <<e>> \o sorted

RECURSIVE SortInto(_, _)
SortInto(sorted, events) ==
  IF events = <<>> THEN sorted
  ELSE SortInto(InsertSorted(sorted, Head(events)), Tail(events))

SortByTimestamp(events) == SortInto(<<>>, events)

getEventTypeCounts(events) ==
  CountsInOrder([i \in DOMAIN events |-> events[i].event_type])

getRiskLevelCounts(events) ==
  CountsInOrder([i \in DOMAIN events |-> events[i].risk_level])

generateAuditSummary(events) ==
  [total_events |-> Len(events),
   by_type |-> getEventTypeCounts(events),
   by_risk |-> getRiskLevelCounts(events),
   high_priority_count |-> Len(SelectSeq(events, IsHighRisk)),
   unique_users |-> Cardinality({ events[i].user_id : i \in DOMAIN events })]

AuditEventEntry(e) ==
  [event_id |-> e.event_id, timestamp |-> e.timestamp,
   event_type |-> e.event_type, user |-> e.user_name,
   risk_level |-> e.risk_level, evidence_url |-> e.evidence_url]

\* auditData of generateAuditLog, for events already in their final order
AuditData(projectId, regulation, date, events) ==
  [project_id |-> projectId,
   regulation |-> regulation,
   period_start |-> date,
   period_end |-> date,
   total_events |-> Len(events),
   events |-> [i \in DOMAIN events |-> AuditEventEntry(events[i])],
   summary |-> generateAuditSummary(events)]

\* the auditLogRecord of generateAuditLog
AuditLogRecord(projectId, regulation, unsorted, date, previousHash, t) ==
  LET events == SortByTimestamp(unsorted)
      currentHash ==
        Sha256Hex(AuditData(projectId, regulation, date, events), previousHash)
  IN [log_id |-> t,
      event_ids |-> [i \in DOMAIN events |-> events[i].event_id],
      export_timestamp |-> t,
      exported_by |-> "system-cron",
      project_id |-> projectId,
      regulation |-> regulation,
      period_start |-> date,
      period_end |-> date,
      report_hash |-> currentHash,
      previous_hash |-> previousHash,
      metadata |-> [total_events |-> Len(events),
                    event_types |-> getEventTypeCounts(events),
                    risk_levels |-> getRiskLevelCounts(events)]]

\* a variant that keeps one row per (project, regulation, period), replacing it
InsertAuditRowReplacing(table, record) ==
  LET same == { i \in DOMAIN table :
                  /\ table[i].project_id = record.project_id
                  /\ table[i].regulation = record.regulation
                  /\ table[i].period_start = record.period_start }
  IN IF same = {} THEN Append(table, record)
     ELSE [table EXCEPT ![CHOOSE i \in same : TRUE] = record]

InsertAuditRow(table, record) == Append(table, record)

\* SELECT report_hash FROM audit_logs ORDER BY export_timestamp DESC LIMIT 1:
\* the rows the query may return first
LatestAuditRows(table) ==
  { i \in DOMAIN table :
      \A j \in DOMAIN table : table[j].export_timestamp
                                <= table[i].export_timestamp }

\* a variant with no genesis value: an empty hash when there is no row
LastAuditHashNoGenesis(results, failed) ==
  IF ~failed /\ Len(results) > 0 THEN results[1].report_hash ELSE <<"">>

\* getLastAuditHash once the query has answered with `results`, or failed
LastAuditHash(results, failed) ==
  IF failed THEN GenesisHash
  ELSE IF Len(results) > 0 THEN results[1].report_hash
  ELSE GenesisHash

(* ------------------------------- Init ---------------------------------- *)
\* An audit-export invocation: its locals (date, groups, previousHash, the
\* loop index), its result, and for the record what it did: how many events
\* its query returned (NoTime: none, or it threw), the ROWIDs of the Audit
\* Records it inserted, and whether it started after a run for the same date
\* had failed with records already inserted.
NoRun ==
  [pc |-> "idle", date |-> 0, groups |-> <<>>, previousHash |-> <<>>,
   idx |-> 0, result |-> <<>>, fetched |-> NoTime, written |-> <<>>,
   retry |-> FALSE]

Init ==
  /\ now = 0
  /\ deployed \in {"reqres", "basicIO"}
  /\ compliance_events = <<>>
  /\ compliance_analytics = <<>>
  /\ audit_logs = <<>>
  /\ predict_calls = <<>>
  /\ risk_predictions = <<>>
  /\ reqs = <<>>
  /\ jobs = <<>>
  /\ observed = <<>>
  /\ runs = [r \in Runs |-> NoRun]

Tick ==
  /\ now < MaxClock
  /\ now' = now + 1
  /\ UNCHANGED <<deployed, compliance_events, compliance_analytics,
                 audit_logs, predict_calls, risk_predictions, reqs, runs,
                 jobs, observed>>

(* ----------------------- store-compliance-event ------------------------ *)
\* What an invocation answered, with the key it was called for.
\* a variant that answers success without the event_id
SuccessAnswerWithoutEventId(eventData, row) ==
  [channel_id |-> eventData.channel_id, message_id |-> eventData.message_id,
   success |-> TRUE, event_id |-> NoTime]

\* a variant that answers failure
SuccessAnswerDenied(eventData, row) ==
  [channel_id |-> eventData.channel_id, message_id |-> eventData.message_id,
   success |-> FALSE, event_id |-> NoTime]

SuccessAnswer(eventData, row) ==
  [channel_id |-> eventData.channel_id, message_id |-> eventData.message_id,
   success |-> TRUE, event_id |-> row.event_id]

ErrorAnswer(eventData) ==
  [channel_id |-> eventData.channel_id, message_id |-> eventData.message_id,
   success |-> FALSE, event_id |-> NoTime]

\* triggerRiskPrediction: predictFunction.execute({project_id, ...})
TriggerRiskPrediction(calls, projectId) == Append(calls, projectId)

TriggerIfHighRisk(calls, row) ==
  IF IsHighRisk(row) THEN TriggerRiskPrediction(calls, row.project_id)
  ELSE calls

\* updateAnalytics run from its first line to its last: the rollup table it
\* may leave (a throw inside it is caught and leaves the table as it was)
UpdateAnalyticsOutcomes(events, analytics, projectId, today) ==
  LET data == AnalyticsData(TodaysEvents(events, projectId, today),
                            projectId, today)
      existing == ExistingAnalytics(analytics, projectId, today)
  IN {analytics}
     \cup (IF existing = {} THEN {InsertAnalyticsRow(analytics, data)}
           ELSE { UpdateAnalyticsRow(analytics, rowid, data) :
                    rowid \in existing })

\* The basicIO file, a whole invocation: validate, insert, updateAnalytics,
\* triggerRiskPrediction, answer.
StoreEventBasicIO(req) ==
  /\ deployed = "basicIO"
  /\ Len(reqs) < MaxRequests
  /\ LET eventData == DecodeBasicIO(req)
         row == RowBasicIO(eventData, now)
         today == DayOf(now)
     IN IF ~HasRequiredFields(eventData)
        THEN /\ reqs' = Append(reqs, ErrorAnswer(eventData))
             /\ UNCHANGED <<compliance_events, compliance_analytics,
                            predict_calls>>
        ELSE \E inserted \in BOOLEAN :
               IF inserted
               THEN /\ compliance_events' =
                         InsertEventRow(compliance_events, row)
                    /\ compliance_analytics' \in
                         UpdateAnalyticsOutcomes(compliance_events',
                           compliance_analytics, row.project_id, today)
                    /\ predict_calls' = TriggerIfHighRisk(predict_calls, row)
                    /\ reqs' = Append(reqs, SuccessAnswer(eventData, row))
               ELSE /\ reqs' = Append(reqs, ErrorAnswer(eventData))
                    /\ UNCHANGED <<compliance_events, compliance_analytics,
                                   predict_calls>>
  /\ UNCHANGED <<now, deployed, audit_logs, risk_predictions, runs,
                 jobs, observed>>

\* The req/res file, a whole invocation: insert, updateAnalytics,
\* triggerRiskPrediction, answer.  It validates nothing.
StoreEventReqRes(req) ==
  /\ deployed = "reqres"
  /\ Len(reqs) < MaxRequests
  /\ LET eventData == DecodeReqRes(req)
         row == RowReqRes(eventData, now)
         today == DayOf(now)
     IN \E inserted \in BOOLEAN :
          IF inserted
          THEN /\ compliance_events' = InsertEventRow(compliance_events, row)
               /\ compliance_analytics' \in
                    UpdateAnalyticsOutcomes(compliance_events',
                      compliance_analytics, row.project_id, today)
               /\ predict_calls' = TriggerIfHighRisk(predict_calls, row)
               /\ reqs' = Append(reqs, SuccessAnswer(eventData, row))
          ELSE /\ reqs' = Append(reqs, ErrorAnswer(eventData))
               /\ UNCHANGED <<compliance_events, compliance_analytics,
                              predict_calls>>
  /\ UNCHANGED <<now, deployed, audit_logs, risk_predictions, runs,
                 jobs, observed>>

(* --------------------------- audit-export cron ------------------------- *)
\* SELECT * FROM compliance_events WHERE DATE(created_at) = date: ROWIDs
PeriodRows(table, date) ==
  { i \in DOMAIN table : DayOf(table[i].created_at) = date }

\* the orders in which a query without ORDER BY may return the rows
QueryOrders(table, rowids) ==
  { [i \in 1..Cardinality(rowids) |-> table[order[i]]] :
      order \in { o \in [1..Cardinality(rowids) -> rowids] :
                    \A a, b \in DOMAIN o : a # b => o[a] # o[b] } }

\* the run has returned: its locals are gone, its result stays
Finished(run, result) ==
  [run EXCEPT !.pc = "done", !.groups = <<>>, !.previousHash = <<>>,
              !.idx = 0, !.result = <<result>>]

\* a variant that reports an empty period as a failure
NoEventsResultFailure ==
  [success |-> FALSE, message |-> "No events to export", logs_generated |-> 0]

NoEventsResult ==
  [success |-> TRUE, message |-> "No events to export", logs_generated |-> 0]

CompletedResult(groups) ==
  [success |-> TRUE, message |-> "", logs_generated |-> Len(groups)]

ErrorResult ==
  [success |-> FALSE, message |-> "error", logs_generated |-> 0]

\* the cron fires: yesterday's events are queried and grouped
FailedPartway(run, date) ==
  /\ run.pc = "done"
  /\ run.date = date
  /\ ~run.result[1].success
  /\ run.written # <<>>

AuditStart(r) ==
  /\ runs[r].pc = "idle"
  /\ \A q \in Runs : q < r => runs[q].pc # "idle"
  /\ LET yesterdayStr == DayOf(now) - 1
         started ==
           [runs[r] EXCEPT
              !.date = yesterdayStr,
              !.retry = \E q \in Runs : FailedPartway(runs[q], yesterdayStr)]
     IN \E answered \in BOOLEAN :
          IF ~answered
          THEN runs' = [runs EXCEPT ![r] = Finished(started, ErrorResult)]
          ELSE \E events \in QueryOrders(compliance_events,
                               PeriodRows(compliance_events, yesterdayStr)) :
                 IF Len(events) = 0
                 THEN runs' = [runs EXCEPT ![r] =
                        Finished([started EXCEPT !.fetched = 0], NoEventsResult)]
                 ELSE runs' = [runs EXCEPT ![r] =
                        [started EXCEPT
                           !.pc = "tail",
                           !.fetched = Len(events),
                           !.groups = groupEventsByProjectAndRegulation(events)]]
  /\ UNCHANGED <<now, deployed, compliance_events, compliance_analytics,
                 audit_logs, predict_calls, risk_predictions, reqs,
                 jobs, observed>>

\* getLastAuditHash answers; the loop over the groups starts
AuditGetLastHash(r) ==
  /\ runs[r].pc = "tail"
  /\ \E failed \in BOOLEAN :
       \E results \in (IF audit_logs = <<>> THEN {<<>>}
                       ELSE { <<audit_logs[i]>> :
                                i \in LatestAuditRows(audit_logs) }) :
         runs' = [runs EXCEPT ![r].pc = "loop", ![r].idx = 1,
                              ![r].previousHash = LastAuditHash(results, failed)]
  /\ UNCHANGED <<now, deployed, compliance_events, compliance_analytics,
                 audit_logs, predict_calls, risk_predictions, reqs,
                 jobs, observed>>

\* generateAuditLog for the next group: build the record, insert it
AuditGenerate(r) ==
  /\ runs[r].pc = "loop"
  /\ LET group == runs[r].groups[runs[r].idx]
         parts == SplitKey(group.key)
         record == AuditLogRecord(parts[1], parts[2], group.events,
                                  runs[r].date, runs[r].previousHash, now)
         last == runs[r].idx = Len(runs[r].groups)
     IN \E inserted \in BOOLEAN :
          IF inserted
          THEN /\ audit_logs' = InsertAuditRow(audit_logs, record)
               /\ LET written ==
                        [runs[r] EXCEPT !.written = Append(@, Len(audit_logs')),
                                        !.idx = @ + 1]
                  IN runs' = [runs EXCEPT ![r] =
                       IF last
                       THEN Finished(written, CompletedResult(runs[r].groups))
                       ELSE written]
          ELSE /\ runs' = [runs EXCEPT ![r] = Finished(@, ErrorResult)]
               /\ UNCHANGED audit_logs
  /\ UNCHANGED <<now, deployed, compliance_events, compliance_analytics,
                 predict_calls, risk_predictions, reqs,
                 jobs, observed>>

(* ------------------------------ predict-risks -------------------------- *)
\* Probabilities and workloads are in hundredths, the event velocity
\* (events.length / 7) in sevenths.
Projects == {"c1"}

\* ORDER BY created_at DESC; rows of equal created_at keep the order they
\* are given in
RECURSIVE InsertByCreatedAtDesc(_, _)
InsertByCreatedAtDesc(sorted, e) ==
  IF sorted = <<>> THEN <<e>>
  ELSE IF Head(sorted).created_at >= e.created_at
       THEN <<Head(sorted)>> \o InsertByCreatedAtDesc(Tail(sorted), e)
       ELSE <<e>> \o sorted

RECURSIVE OrderInto(_, _)
OrderInto(sorted, rows) ==
  IF rows = <<>> THEN sorted
  ELSE OrderInto(InsertByCreatedAtDesc(sorted, Head(rows)), Tail(rows))

OrderByCreatedAtDesc(rows) == OrderInto(<<>>, rows)

\* SELECT * FROM compliance_events WHERE project_id = p
\* ORDER BY created_at DESC LIMIT 100
ProjectEvents(table, projectId) ==
  OrderByCreatedAtDesc(SelectSeq(table, LAMBDA e : e.project_id = projectId))

\* SELECT * FROM compliance_analytics WHERE project_id = p ... LIMIT 30
ProjectAnalytics(table, projectId) ==
  SelectSeq(table, LAMBDA a : a.project_id = projectId)

calculateHistoricalDelayRate(analytics) ==
  IF Len(analytics) = 0 THEN 30 ELSE 35

calculateEventVelocity(events) == Len(events)

collectFeatureData(events, analytics) ==
  [team_response_time |-> 48,
   dependency_chain_length |-> 3,
   days_until_deadline |-> 14,
   pending_approvals |->
     Len(SelectSeq(events, LAMBDA e : e.event_type = "approval"
                                      /\ e.status = "Pending Review")),
   team_workload |-> 70,
   historical_delay_rate |-> calculateHistoricalDelayRate(analytics),
   compliance_event_velocity |-> calculateEventVelocity(events),
   high_risk_count |-> Len(SelectSeq(events, IsHighRisk))]

When(cond, increment) == IF cond THEN increment ELSE 0

\* a variant in which pending approvals lower the probability
predictApprovalDelayRelieved(features) ==
  Min(100, When(features.team_response_time > 72, 35)
           + When(features.pending_approvals <= 5, 30)
           + When(features.days_until_deadline < 7, 25))

predictApprovalDelay(features) ==
  Min(100, When(features.team_response_time > 72, 35)
           + When(features.pending_approvals > 5, 30)
           + When(features.days_until_deadline < 7, 25))

predictDependencyBottleneck(features) ==
  Min(100, When(features.dependency_chain_length > 4, 40)
           + When(features.team_workload > 85, 35)
           + When(features.historical_delay_rate > 40, 20))

predictDocumentationGap(features) ==
  Min(100, When(2 * features.compliance_event_velocity < 7, 45)
           + When(features.days_until_deadline < 14
                  /\ features.compliance_event_velocity < 7, 30))

predictResourceConstraint(features) ==
  Min(100, When(features.team_workload > 90, 50))

\* a variant whose lower bounds are open
getSeverityOpenBounds(probability) ==
  IF probability > 85 THEN "Critical"
  ELSE IF probability > 70 THEN "High"
  ELSE IF probability > 50 THEN "Medium"
  ELSE "Low"

getSeverity(probability) ==
  IF probability >= 85 THEN "Critical"
  ELSE IF probability >= 70 THEN "High"
  ELSE IF probability >= 50 THEN "Medium"
  ELSE "Low"

\* Math.round(a / b) for b > 0
RoundDiv(a, b) == (2 * a + b) \div (2 * b)

\* getImpactDate: new Date() moved on by min(daysAhead, delayDays) days
getImpactDate(t, daysAhead, delayDays) ==
  t + Min(daysAhead, delayDays) * TicksPerDay

Prediction(category, probability, impact_date) ==
  [category |-> category, severity |-> getSeverity(probability),
   probability |-> probability, impact_date |-> impact_date]

\* predictions.sort((a, b) => b.probability - a.probability), stable
\* The doubles behind the percent values: 0.4 + 0.2 is 0.6000000000000001,
\* 0.35 + 0.3 is 0.6499999999999999 and 0.35 + 0.3 + 0.25 is
\* 0.8999999999999999; every other sum of increments is the double of its
\* decimal.  The offset of a prediction's probability from its decimal, in
\* units of the last place:
ProbabilityUlps(p) ==
  IF p.category = "dependency_bottleneck" /\ p.probability = 60 THEN 1
  ELSE IF p.category = "approval_delay" /\ p.probability \in {65, 90} THEN -1
  ELSE 0

\* a variant that orders by probability ascending
CompareProbabilityAscending(a, b) == a.probability - b.probability

\* (a, b) => b.probability - a.probability: its sign
CompareProbability(a, b) ==
  (b.probability - a.probability) * 10 + ProbabilityUlps(b) - ProbabilityUlps(a)

\* Array.prototype.sort is stable
RECURSIVE InsertByProbability(_, _)
InsertByProbability(sorted, p) ==
  IF sorted = <<>> THEN <<p>>
  ELSE IF CompareProbability(Head(sorted), p) <= 0
       THEN <<Head(sorted)>> \o InsertByProbability(Tail(sorted), p)
       ELSE <<p>> \o sorted

RECURSIVE SortByProbability(_, _)
SortByProbability(sorted, predictions) ==
  IF predictions = <<>> THEN sorted
  ELSE SortByProbability(InsertByProbability(sorted, Head(predictions)),
                         Tail(predictions))

\* a variant that emits a prediction from probability 0.3 on
runPredictionModelFromThreshold(features, daysAhead, t) ==
  LET all == << Prediction("approval_delay", predictApprovalDelay(features),
                  getImpactDate(t, daysAhead,
                                RoundDiv(features.team_response_time, 24))),
                Prediction("dependency_bottleneck",
                  predictDependencyBottleneck(features),
                  getImpactDate(t, daysAhead,
                                features.dependency_chain_length * 2)),
                Prediction("documentation_gap",
                  predictDocumentationGap(features),
                  getImpactDate(t, daysAhead, 7)),
                Prediction("resource_constraint",
                  predictResourceConstraint(features),
                  getImpactDate(t, daysAhead, 5)) >>
  IN SortByProbability(<<>>, SelectSeq(all, LAMBDA p : p.probability >= 30))

\* delay_days: Math.round(team_response_time / 24), dependency_chain_length
\* * 2, 7 and 5
runPredictionModel(features, daysAhead, t) ==
  LET all == << Prediction("approval_delay", predictApprovalDelay(features),
                  getImpactDate(t, daysAhead,
                                RoundDiv(features.team_response_time, 24))),
                Prediction("dependency_bottleneck",
                  predictDependencyBottleneck(features),
                  getImpactDate(t, daysAhead,
                                features.dependency_chain_length * 2)),
                Prediction("documentation_gap",
                  predictDocumentationGap(features),
                  getImpactDate(t, daysAhead, 7)),
                Prediction("resource_constraint",
                  predictResourceConstraint(features),
                  getImpactDate(t, daysAhead, 5)) >>
  IN SortByProbability(<<>>, SelectSeq(all, LAMBDA p : p.probability > 30))

\* Probabilities are IEEE doubles: 0.35 + 0.3 is 0.6499999999999999 and
\* 0.35 + 0.3 + 0.25 is 0.8999999999999999.  These are the lists of emitted
\* probabilities (in percent) whose mean times 100 is n + 0.5 in exact
\* arithmetic and n + 0.49999999999999 in doubles, which Math.round takes
\* down to n.
JustUnderHalf ==
  { <<65, 40>>, <<90, 45>>, <<95, 60>>, <<95, 90, 75, 50>> }

RECURSIVE SumOf(_)
SumOf(numbers) ==
  IF numbers = <<>> THEN 0 ELSE Head(numbers) + SumOf(Tail(numbers))

\* Math.round(avgProbability * 10 * 10) / 10, in tenths
calculateOverallRiskScore(predictions) ==
  IF Len(predictions) = 0 THEN 0
  ELSE LET probabilities ==
             [k \in DOMAIN predictions |-> predictions[k].probability]
       IN RoundDiv(SumOf(probabilities), Len(predictions))
          - (IF probabilities \in JustUnderHalf THEN 1 ELSE 0)

\* Math.random(): two of the values it may return
RandomDraws == {"0.25", "0.75"}

\* prediction_id: Date.now() + Math.random(), as its two summands
PredictionData(projectId, prediction, random, t) ==
  [prediction_id |-> <<t, random>>,
   project_id |-> projectId,
   risk_category |-> prediction.category,
   severity |-> prediction.severity,
   probability |-> prediction.probability,
   predicted_impact_date |-> prediction.impact_date,
   status |-> "Active",
   created_at |-> t]

PredictResponse(predictions) ==
  [status |-> 200,
   risks |-> predictions,
   total_risks |-> Len(predictions),
   critical |-> Len(SelectSeq(predictions,
                              LAMBDA p : p.severity = "Critical")),
   overall_risk_score |-> calculateOverallRiskScore(predictions)]

PredictError == [status |-> 500]

\* A whole predict-risks invocation at clock reading t: the rows it inserts
\* and what it answers.  A query or an insert that throws ends it with the
\* rows inserted so far and the error answer.
PredictRisksOutcomes(events, analytics, projectId, daysAhead, t) ==
  LET features ==
        collectFeatureData(ProjectEvents(events, projectId),
                           ProjectAnalytics(analytics, projectId))
      predictions == runPredictionModel(features, daysAhead, t)
      Rows(randoms, inserted) ==
        [k \in 1..inserted |->
           PredictionData(projectId, predictions[k], randoms[k], t)]
  IN UNION {
       { [rows |-> Rows(randoms, Len(predictions)),
          response |-> PredictResponse(predictions)] }
       \cup
       { [rows |-> Rows(randoms, inserted), response |-> PredictError] :
           inserted \in 0..Max(0, Len(predictions) - 1) } :
       randoms \in [DOMAIN predictions -> RandomDraws] }

\* predict-risks called for a project
PredictRisks(projectId, daysAhead) ==
  /\ Len(risk_predictions) < MaxPredictionRows
  /\ now <= MaxPredictClock
  /\ \E outcome \in PredictRisksOutcomes(compliance_events,
                      compliance_analytics, projectId, daysAhead, now) :
       risk_predictions' = risk_predictions \o outcome.rows
  /\ UNCHANGED <<now, deployed, compliance_events, compliance_analytics,
                 audit_logs, predict_calls, reqs, runs,
                 jobs, observed>>

(* ----------------------------- generate-summary ------------------------ *)
\* A whole generate-summary invocation: it queries compliance_events and
\* answers; it writes to no table.
GenerateSummary(project) ==
  /\ UNCHANGED vars

(* ------------------------------ specification -------------------------- *)
Next ==
  \/ Tick
  \/ \E req \in Requests : StoreEventBasicIO(req)
  \/ \E req \in BodyRequests : StoreEventReqRes(req)
  \/ \E r \in Runs : AuditStart(r)
  \/ \E r \in Runs : AuditGetLastHash(r)
  \/ \E r \in Runs : AuditGenerate(r)
  \/ \E projectId \in Projects : PredictRisks(projectId, 7)
  \/ \E project \in Projects : GenerateSummary(project)

Spec == Init /\ [][Next]_vars

(* =============================== claims ================================ *)
StoredWithKey(channelId, messageId) ==
  { k \in DOMAIN compliance_events :
      /\ compliance_events[k].channel_id = channelId
      /\ compliance_events[k].message_id = messageId }

\* C1: two successful inserts of the same (channel_id, message_id) leave
\* exactly one stored Event, and the second call answers with the event_id
\* the first call answered with.
C1_IdempotentInsert ==
  \A i, j \in DOMAIN reqs :
    ( /\ i < j
      /\ reqs[i].success /\ reqs[j].success
      /\ ~Falsy(reqs[i].channel_id) /\ ~Falsy(reqs[i].message_id)
      /\ reqs[i].channel_id = reqs[j].channel_id
      /\ reqs[i].message_id = reqs[j].message_id )
    => /\ Cardinality(StoredWithKey(reqs[i].channel_id, reqs[i].message_id)) = 1
       /\ reqs[j].event_id = reqs[i].event_id

\* C2: compliance_events never holds two rows with the same
\* (channel_id, message_id).
C2_OneRowPerMessage ==
  \A i, j \in DOMAIN compliance_events :
    ( /\ i # j
      /\ compliance_events[i].channel_id = compliance_events[j].channel_id
      /\ compliance_events[i].message_id = compliance_events[j].message_id )
    => FALSE

\* C3: within one run, the Audit Record of the i-th processed partition
\* (i > 1) has previous_hash equal to the report_hash of the record the run
\* wrote for the partition before it.
C3_PartitionsChained ==
  \A r \in Runs : \A i \in DOMAIN runs[r].written :
    i > 1 =>
      audit_logs[runs[r].written[i]].previous_hash
        = audit_logs[runs[r].written[i - 1]].report_hash

\* C4: the chain never forks: no two Audit Records have the same
\* previous_hash.
C4_NoFork ==
  \A i, j \in DOMAIN audit_logs :
    i # j => audit_logs[i].previous_hash # audit_logs[j].previous_hash

\* The rows an Audit Record's event_ids may stand for, in their order: rows
\* of its partition and period with those event_ids, each row once.
CoveredLookups(record, table) ==
  { s \in [DOMAIN record.event_ids -> DOMAIN table] :
      /\ \A a, b \in DOMAIN s : a # b => s[a] # s[b]
      /\ \A j \in DOMAIN s :
           /\ table[s[j]].event_id = record.event_ids[j]
           /\ table[s[j]].project_id = record.project_id
           /\ table[s[j]].regulation = record.regulation
           /\ DayOf(table[s[j]].created_at) = record.period_start }

\* the record's report_hash recomputes from its covered Events and
\* previous_hash
Verifies(record, table) ==
  \E s \in CoveredLookups(record, table) :
    record.report_hash =
      Sha256Hex(AuditData(record.project_id, record.regulation,
                          record.period_start,
                          [j \in DOMAIN s |-> table[s[j]]]),
                record.previous_hash)

Covers(record, table, rowid) ==
  \E s \in CoveredLookups(record, table) : \E j \in DOMAIN s : s[j] = rowid

EventFields ==
  {"event_id", "timestamp", "time_stamp", "channel_id", "message_id",
   "user_id", "user_name", "event_type", "regulation", "risk_level",
   "message_text", "evidence_url", "project_id", "status", "created_at"}

NumericFields == {"event_id", "timestamp", "time_stamp", "created_at"}

\* the table after one field of one stored Event has been changed
EditEvent(table, rowid, field) ==
  [table EXCEPT ![rowid][field] =
     IF field \in NumericFields THEN @ + 1 ELSE "edited"]

\* C5: the chain verifies, and changing any field of a covered Event makes
\* verification fail at the first Audit Record that covers the Event.
C5_ChainIntegrity ==
  /\ \A k \in DOMAIN audit_logs : Verifies(audit_logs[k], compliance_events)
  /\ \A rowid \in DOMAIN compliance_events : \A field \in EventFields :
       LET covering == { k \in DOMAIN audit_logs :
                           Covers(audit_logs[k], compliance_events, rowid) }
           first == CHOOSE k \in covering : \A m \in covering : k <= m
       IN covering # {} =>
            ~Verifies(audit_logs[first],
                      EditEvent(compliance_events, rowid, field))

\* the report_hash of every partition of a run whose event query returned
\* `events` and whose getLastAuditHash returned `previousHash`
RunReportHashes(events, date, previousHash) ==
  LET groups == groupEventsByProjectAndRegulation(events)
  IN { <<groups[g].key,
         AuditLogRecord(SplitKey(groups[g].key)[1], SplitKey(groups[g].key)[2],
                        groups[g].events, date, previousHash, 0).report_hash>> :
       g \in DOMAIN groups }

\* C6: from the same audit_logs and the same period Events, a run produces
\* the same report_hash for every partition whatever order the event query
\* returns the rows in.
C6_HashesIndependentOfQueryOrder ==
  LET date == DayOf(now) - 1
      orders == QueryOrders(compliance_events,
                            PeriodRows(compliance_events, date))
  IN \A q1, q2 \in orders :
       RunReportHashes(q1, date, GenesisHash)
         = RunReportHashes(q2, date, GenesisHash)

\* the value(s) getLastAuditHash may return to a run that asks now
ChainTails(table) ==
  IF table = <<>> THEN {GenesisHash}
  ELSE { table[i].report_hash : i \in LatestAuditRows(table) }

\* C7: a run whose event query returns no Events finishes in that step with
\* success, inserts no Audit Record and leaves the chain tail as it was.
C7_EmptyPeriodNoOp ==
  [][ \A r \in Runs :
        (runs[r].pc = "idle" /\ runs'[r].fetched = 0)
        => /\ runs'[r].pc = "done"
           /\ runs'[r].result[1].success
           /\ runs'[r].written = <<>>
           /\ audit_logs' = audit_logs
           /\ ChainTails(audit_logs') = ChainTails(audit_logs) ]_vars

\* an empty-period run has finished on a chain that already had a record
C7_Witness ==
  \E r \in Runs :
    /\ runs[r].pc = "done" /\ runs[r].fetched = 0
    /\ runs[r].result[1].success
    /\ \E k \in DOMAIN audit_logs :
         DayOf(audit_logs[k].export_timestamp) <= runs[r].date

\* C8: the first Audit Record ever written has the all-zero previous_hash.
C8_GenesisPreviousHash ==
  audit_logs # <<>> => audit_logs[1].previous_hash = GenesisHash

C8_Witness ==
  /\ Len(audit_logs) >= 2
  /\ audit_logs[1].previous_hash = GenesisHash
  /\ audit_logs[2].previous_hash # GenesisHash

\* C9: every step leaves every persisted Audit Record in place and
\* unchanged; audit_logs only grows.
C9_AppendOnly ==
  [][ /\ Len(audit_logs') >= Len(audit_logs)
      /\ \A k \in DOMAIN audit_logs : audit_logs'[k] = audit_logs[k] ]_vars

C9_Witness ==
  /\ Len(audit_logs) >= 2
  /\ audit_logs[1].project_id = audit_logs[2].project_id
  /\ audit_logs[1].period_start = audit_logs[2].period_start
  /\ compliance_analytics # <<>>
  /\ risk_predictions # <<>>
  /\ \E k \in DOMAIN compliance_events :
       compliance_events[k].created_at >= audit_logs[1].export_timestamp

Partitions(table, date) ==
  { <<table[i].project_id, table[i].regulation>> :
      i \in PeriodRows(table, date) }

RecordsOf(date, partition) ==
  { k \in DOMAIN audit_logs :
      /\ audit_logs[k].period_start = date
      /\ audit_logs[k].project_id = partition[1]
      /\ audit_logs[k].regulation = partition[2] }

\* C10: once a run that retries a period after a run that failed partway
\* has completed, every partition of the period has exactly one Audit Record.
C10_RetryExactlyOnce ==
  \A r \in Runs :
    (runs[r].pc = "done" /\ runs[r].retry /\ runs[r].result[1].success
       /\ runs[r].fetched > 0)
    => \A partition \in Partitions(compliance_events, runs[r].date) :
         Cardinality(RecordsOf(runs[r].date, partition)) = 1

(* ====================== ingest of one payload, both encodings ========== *)
\* One payload is delivered to the deployed store-compliance-event file, first
\* as a JSON body and then as flattened arguments, at one clock reading.
IngestChannels == {"c1", Undefined}
IngestMessageIds == {"m1", Undefined}
IngestRiskLevels == {Undefined, "High", "Extreme", JsonZero}
IngestRegulations == {Undefined, "GDPR"}
IngestProjects == {Undefined, "p1"}

IngestPayloads ==
  { [Payload(c, m, reg, risk, "approval") EXCEPT !.project_id = proj] :
      c \in IngestChannels, m \in IngestMessageIds,
      reg \in IngestRegulations, risk \in IngestRiskLevels,
      proj \in IngestProjects }

InitIngest ==
  /\ now = 0
  /\ deployed \in {"reqres", "basicIO"}
  /\ compliance_events = <<>>
  /\ compliance_analytics = <<>>
  /\ audit_logs = <<>>
  /\ predict_calls = <<>>
  /\ risk_predictions = <<>>
  /\ reqs = <<>>
  /\ jobs = <<>>
  /\ observed \in { <<p>> : p \in IngestPayloads }
  /\ runs = [r \in Runs |-> NoRun]

DeliverBody ==
  /\ Len(reqs) = 0
  /\ \/ StoreEventBasicIO(BodyRequest(observed[1]))
     \/ StoreEventReqRes(BodyRequest(observed[1]))

DeliverForm ==
  /\ Len(reqs) = 1
  /\ StoreEventBasicIO(FormRequest(observed[1]))

NextIngest == DeliverBody \/ DeliverForm

SpecIngest == InitIngest /\ [][NextIngest]_vars

LacksRequired(p) == p.channel_id = Undefined \/ p.message_id = Undefined

\* C11: a request whose payload lacks channel_id or message_id is answered
\* success=false and leaves compliance_events, compliance_analytics and the
\* prediction triggers as they were.
C11_RejectedNoSideEffect ==
  [][ (Len(reqs') > Len(reqs) /\ LacksRequired(observed[1]))
      => /\ ~reqs'[Len(reqs')].success
         /\ compliance_events' = compliance_events
         /\ compliance_analytics' = compliance_analytics
         /\ predict_calls' = predict_calls
         /\ risk_predictions' = risk_predictions ]_vars

KnownRiskLevels == {"Low", "Medium", "High", "Critical"}

\* C12: every stored Event has status Pending Review, a known risk_level
\* (Low when the input's is unknown or missing), regulation General when the
\* input has none, and project_id = channel_id when the input has none.
C12_CanonicalDefaults ==
  \A k \in DOMAIN compliance_events :
    LET e == compliance_events[k]
        p == observed[1]
    IN /\ e.status = "Pending Review"
       /\ e.risk_level \in KnownRiskLevels
       /\ (p.risk_level \notin KnownRiskLevels => e.risk_level = "Low")
       /\ (p.regulation = Undefined => e.regulation = "General")
       /\ (p.project_id = Undefined => e.project_id = e.channel_id)

\* an Event without the fields that differ from one insert to the next
Canonical(e) == [f \in DOMAIN e \ {"event_id", "created_at"} |-> e[f]]

BothEncodingsStored ==
  /\ deployed = "basicIO"
  /\ Len(reqs) = 2 /\ reqs[1].success /\ reqs[2].success

StringPayload(p) == \A f \in DOMAIN p \ {"timestamp"} : p[f] # JsonZero

MaxRollupEvents == 3
RollupPadding == 12

RollupRiskLevels == {"Medium", "High", "Critical"}
RollupStatuses == {"Pending Review", "Completed"}
RollupEventTypes == {"approval", "decision", "risk_discussion"}

\* a stored Event of project c1 created at tick 0, with the status a review
\* has left it in
RollupEvent(risk, status, type) ==
  [RowBasicIO(Payload("c1", "m1", Undefined, risk, type), 0)
     EXCEPT !.status = status]

RollupEvents ==
  { RollupEvent(risk, status, type) :
      risk \in RollupRiskLevels, status \in RollupStatuses,
      type \in RollupEventTypes }

RollupTables ==
  UNION { [1..n -> RollupEvents] : n \in 0..MaxRollupEvents }

InitRollup ==
  /\ now = 0
  /\ deployed \in {"reqres", "basicIO"}
  /\ \E drawn \in RollupTables : \E pad \in {0, RollupPadding} :
       compliance_events =
         drawn \o [k \in 1..pad |->
                     RollupEvent("High", "Pending Review", "approval")]
  /\ compliance_analytics = <<>>
  /\ audit_logs = <<>>
  /\ predict_calls = <<>>
  /\ risk_predictions = <<>>
  /\ reqs = <<>>
  /\ jobs = <<>>
  /\ observed = <<>>
  /\ runs = [r \in Runs |-> NoRun]

\* updateAnalytics(projectId) from its first line to its last
RecomputeRollup(projectId) ==
  /\ compliance_analytics' \in
       UpdateAnalyticsOutcomes(compliance_events, compliance_analytics,
                               projectId, DayOf(now))
  /\ UNCHANGED <<now, deployed, compliance_events, audit_logs, predict_calls,
                 risk_predictions, reqs, jobs, observed, runs>>

NextRollup == RecomputeRollup("c1")

SpecRollup == InitRollup /\ [][NextRollup]_vars

Clamp(x, lo, hi) == IF x < lo THEN lo ELSE IF x > hi THEN hi ELSE x

\* ROWIDs of the Events of the rollup row's project and day
RolledUp(row) ==
  { k \in DOMAIN compliance_events :
      /\ compliance_events[k].project_id = row.project_id
      /\ DayOf(compliance_events[k].created_at) = row.date }

HighOrCritical(k) == compliance_events[k].risk_level \in {"High", "Critical"}
PendingReview(k) == compliance_events[k].status = "Pending Review"
Approval(k) == compliance_events[k].event_type = "approval"

\* C14 (as stated): the rollup's compliance_score is
\* clamp(100 - 5*|High or Critical and Pending Review|
\*           - 3*|approval and Pending Review|, 0, 100).
C14_ScoreCountsPendingHighRisk ==
  \A i \in DOMAIN compliance_analytics :
    LET row == compliance_analytics[i]
        high == { k \in RolledUp(row) : HighOrCritical(k) /\ PendingReview(k) }
        approvals == { k \in RolledUp(row) : Approval(k) /\ PendingReview(k) }
    IN row.compliance_score
         = Clamp(100 - 5 * Cardinality(high) - 3 * Cardinality(approvals),
                 0, 100)

\* C14 (amended): the rollup's compliance_score is
\* clamp(100 - 5*|High or Critical, whatever the status|
\*           - 3*|approval and Pending Review|, 0, 100).
C14_ScoreCountsAllHighRisk ==
  \A i \in DOMAIN compliance_analytics :
    LET row == compliance_analytics[i]
        high == { k \in RolledUp(row) : HighOrCritical(k) }
        approvals == { k \in RolledUp(row) : Approval(k) /\ PendingReview(k) }
    IN row.compliance_score
         = Clamp(100 - 5 * Cardinality(high) - 3 * Cardinality(approvals),
                 0, 100)

\* a rollup clamped at 0 over Events that include a reviewed high-risk one
C14_Witness ==
  /\ compliance_analytics # <<>>
  /\ compliance_analytics[1].compliance_score = 0
  /\ \E k \in DOMAIN compliance_events :
       HighOrCritical(k) /\ ~PendingReview(k)

ScenarioEvents ==
  { RollupEvent("High", "Pending Review", "approval"),
    RollupEvent("Medium", "Completed", "decision"),
    RollupEvent("High", "Pending Review", "risk_discussion") }

IsScenario ==
  /\ Len(compliance_events) = 3
  /\ { compliance_events[k] : k \in DOMAIN compliance_events } = ScenarioEvents

\* C15: with exactly a High pending approval, a Medium completed decision and
\* a High pending risk_discussion on one project and day, the rollup row of
\* that project and day has compliance_score 87.
C15_ScenarioScore87 ==
  IsScenario =>
    \A i \in DOMAIN compliance_analytics :
      compliance_analytics[i].compliance_score = 87

C15_Witness ==
  /\ IsScenario
  /\ Len(compliance_analytics) = 1
  /\ compliance_analytics[1].total_events = 3
  /\ compliance_analytics[1].project_id = "c1"

(* ============== overlapping invocations of updateAnalytics ============= *)
\* The store function is invoked again while the updateAnalytics of earlier
\* invocations are still waiting on their queries; every await of
\* updateAnalytics is a step of its own.
MaxRaceRequests == 2

RacePayloads ==
  { Payload("c1", "m1", "GDPR", risk, "approval") : risk \in {"Low", "High"} }

RaceRequests == { BodyRequest(p) : p \in RacePayloads }

RaceRequestsMade ==
  Len(jobs) + Cardinality({ k \in DOMAIN reqs : ~reqs[k].success })

\* updateAnalytics(projectId) up to its first await: today is taken, the
\* events query is issued.  rowid is the ROWID insertRow returned to the caller.
StartJob(projectId, today, rowid, answered) ==
  [project_id |-> projectId, today |-> today, rowid |-> rowid,
   pc |-> "queryEvents", events |-> <<>>, existing |-> {},
   answered |-> answered]

InitRace ==
  /\ now = 0
  /\ deployed \in {"reqres", "basicIO"}
  /\ compliance_events = <<>>
  /\ compliance_analytics = <<>>
  /\ audit_logs = <<>>
  /\ predict_calls = <<>>
  /\ risk_predictions = <<>>
  /\ reqs = <<>>
  /\ jobs = <<>>
  /\ observed = <<>>
  /\ runs = [r \in Runs |-> NoRun]

\* basicIO file: validate, insert, start updateAnalytics and
\* triggerRiskPrediction without awaiting them, answer
RaceStoreBasicIO(req) ==
  /\ deployed = "basicIO"
  /\ RaceRequestsMade < MaxRaceRequests
  /\ LET eventData == DecodeBasicIO(req)
         row == RowBasicIO(eventData, now)
     IN IF ~HasRequiredFields(eventData)
        THEN /\ reqs' = Append(reqs, ErrorAnswer(eventData))
             /\ UNCHANGED <<compliance_events, predict_calls, jobs>>
        ELSE \E inserted \in BOOLEAN :
               IF inserted
               THEN /\ compliance_events' =
                         InsertEventRow(compliance_events, row)
                    /\ jobs' = Append(jobs,
                                 StartJob(row.project_id, DayOf(now),
                                          Len(compliance_events'), TRUE))
                    /\ predict_calls' = TriggerIfHighRisk(predict_calls, row)
                    /\ reqs' = Append(reqs, SuccessAnswer(eventData, row))
               ELSE /\ reqs' = Append(reqs, ErrorAnswer(eventData))
                    /\ UNCHANGED <<compliance_events, predict_calls, jobs>>
  /\ UNCHANGED <<now, deployed, compliance_analytics, audit_logs,
                 risk_predictions, observed, runs>>

\* req/res file up to "await updateAnalytics(...)": insert, start
\* updateAnalytics
RaceStoreReqRes(req) ==
  /\ deployed = "reqres"
  /\ RaceRequestsMade < MaxRaceRequests
  /\ LET eventData == DecodeReqRes(req)
         row == RowReqRes(eventData, now)
     IN \E inserted \in BOOLEAN :
          IF inserted
          THEN /\ compliance_events' = InsertEventRow(compliance_events, row)
               /\ jobs' = Append(jobs,
                            StartJob(row.project_id, DayOf(now),
                                     Len(compliance_events'), FALSE))
               /\ reqs' = reqs
          ELSE /\ reqs' = Append(reqs, ErrorAnswer(eventData))
               /\ UNCHANGED <<compliance_events, jobs>>
  /\ UNCHANGED <<now, deployed, compliance_analytics, audit_logs,
                 predict_calls, risk_predictions, observed, runs>>

\* req/res file after "await updateAnalytics(...)" returned:
\* triggerRiskPrediction, answer
RaceAnswerReqRes(j) ==
  /\ deployed = "reqres"
  /\ jobs[j].pc \in {"done", "failed"}
  /\ ~jobs[j].answered
  /\ LET row == compliance_events[jobs[j].rowid]
     IN /\ predict_calls' = TriggerIfHighRisk(predict_calls, row)
        /\ reqs' = Append(reqs, SuccessAnswer(row, row))
  /\ jobs' = [jobs EXCEPT ![j].answered = TRUE]
  /\ UNCHANGED <<now, deployed, compliance_events, compliance_analytics,
                 audit_logs, risk_predictions, observed, runs>>

\* const events = await eventsTable.query(query)
JobQueryEvents(j) ==
  /\ jobs[j].pc = "queryEvents"
  /\ jobs' = [jobs EXCEPT
       ![j].events = TodaysEvents(compliance_events, jobs[j].project_id,
                                  jobs[j].today),
       ![j].pc = "queryExisting"]
  /\ UNCHANGED <<now, deployed, compliance_events, compliance_analytics,
                 audit_logs, predict_calls, risk_predictions, reqs, observed,
                 runs>>

\* const existing = await analyticsTable.query(existingQuery)
JobQueryExisting(j) ==
  /\ jobs[j].pc = "queryExisting"
  /\ jobs' = [jobs EXCEPT
       ![j].existing = ExistingAnalytics(compliance_analytics,
                                         jobs[j].project_id, jobs[j].today),
       ![j].pc = "write"]
  /\ UNCHANGED <<now, deployed, compliance_events, compliance_analytics,
                 audit_logs, predict_calls, risk_predictions, reqs, observed,
                 runs>>

\* await analyticsTable.updateRow(...) or await analyticsTable.insertRow(...)
JobWrite(j) ==
  /\ jobs[j].pc = "write"
  /\ LET data == AnalyticsData(jobs[j].events, jobs[j].project_id,
                               jobs[j].today)
     IN IF jobs[j].existing = {}
        THEN compliance_analytics' =
               InsertAnalyticsRow(compliance_analytics, data)
        ELSE \E rowid \in jobs[j].existing :
               compliance_analytics' =
                 UpdateAnalyticsRow(compliance_analytics, rowid, data)
  /\ jobs' = [jobs EXCEPT ![j].pc = "done"]
  /\ UNCHANGED <<now, deployed, compliance_events, audit_logs, predict_calls,
                 risk_predictions, reqs, observed, runs>>

\* one of the awaits throws: catch (error) { log }
JobFail(j) ==
  /\ jobs[j].pc \in {"queryEvents", "queryExisting", "write"}
  /\ jobs' = [jobs EXCEPT ![j].pc = "failed"]
  /\ UNCHANGED <<now, deployed, compliance_events, compliance_analytics,
                 audit_logs, predict_calls, risk_predictions, reqs, observed,
                 runs>>

\* collectFeatureData's analytics query, answered to the prediction engine
RaceCollectFeatures(projectId) ==
  /\ observed' = <<ProjectAnalytics(compliance_analytics, projectId)>>
  /\ UNCHANGED <<now, deployed, compliance_events, compliance_analytics,
                 audit_logs, predict_calls, risk_predictions, reqs, jobs,
                 runs>>

NextRace ==
  \/ \E req \in RaceRequests : RaceStoreBasicIO(req)
  \/ \E req \in RaceRequests : RaceStoreReqRes(req)
  \/ \E j \in DOMAIN jobs : RaceAnswerReqRes(j)
  \/ \E j \in DOMAIN jobs : JobQueryEvents(j)
  \/ \E j \in DOMAIN jobs : JobQueryExisting(j)
  \/ \E j \in DOMAIN jobs : JobWrite(j)
  \/ \E j \in DOMAIN jobs : JobFail(j)
  \/ \E projectId \in Projects : RaceCollectFeatures(projectId)

SpecRace == InitRace /\ [][NextRace]_vars

\* C16: compliance_analytics holds at most one row per (project_id, date),
\* also after inserts whose updateAnalytics calls overlap.
C16_OneRowPerProjectDay ==
  \A i, k \in DOMAIN compliance_analytics :
    (/\ compliance_analytics[i].project_id = compliance_analytics[k].project_id
     /\ compliance_analytics[i].date = compliance_analytics[k].date)
    => i = k

AllJobsDone ==
  /\ jobs # <<>>
  /\ \A j \in DOMAIN jobs : jobs[j].pc = "done"

\* C17: once every started recomputation has finished, each rollup row equals
\* the recompute over all Events stored for its project and day.
C17_RacesConverge ==
  AllJobsDone =>
    \A i \in DOMAIN compliance_analytics :
      LET row == compliance_analytics[i]
      IN row = AnalyticsData(TodaysEvents(compliance_events, row.project_id,
                                          row.date),
                             row.project_id, row.date)

\* C18: a rollup read made after an insert was answered with success (and
\* whose recomputation did not throw) finds a row of that project and day,
\* and no row that leaves the inserted Event out.
C18_ReadAfterAnswerSeesInsert ==
  [][ (\E projectId \in Projects : RaceCollectFeatures(projectId)) =>
        \A j \in DOMAIN jobs :
          (jobs[j].answered /\ jobs[j].pc # "failed") =>
            LET rows == SelectSeq(observed'[1],
                          LAMBDA a : a.project_id = jobs[j].project_id
                                     /\ a.date = jobs[j].today)
            IN /\ rows # <<>>
               /\ \A i \in DOMAIN rows : rows[i].total_events >= jobs[j].rowid
    ]_vars

(* ================= generate-summary over a given table ================= *)
\* compliance_events holds any Events; generate-summary and
\* collectFeatureData query it and what they answer is kept in observed.
MaxSummaryEvents == 2

SummaryNow == 40 * TicksPerDay

SevenDaysAgo(t) == t - 7 * TicksPerDay
ThirtyDaysAgo(t) == t - 30 * TicksPerDay

\* deadline: eventData.deadline || null; NoTime stands for null
SummaryDeadlines == {NoTime, SummaryNow - 1}
SummaryCreated == {SevenDaysAgo(SummaryNow) - 1, SevenDaysAgo(SummaryNow)}

SummaryEvent(reg, risk, status, type, deadline, created) ==
  [project_id |-> "c1", regulation |-> reg, risk_level |-> risk,
   status |-> status, event_type |-> type, deadline |-> deadline,
   created_at |-> created]

SummaryEvents ==
  { SummaryEvent(reg, risk, status, type, deadline, created) :
      reg \in {"GDPR", "General"}, risk \in {"Low", "High"},
      status \in {"Pending Review", "Completed"},
      type \in {"approval", "decision"},
      deadline \in SummaryDeadlines, created \in SummaryCreated }

\* six Events of six event types, none of the last 7 days
SixTypes ==
  [k \in 1..6 |->
     SummaryEvent("GDPR", "Low", "Completed",
                  <<"approval", "decision", "risk_discussion", "milestone",
                    "audit", "general">>[k],
                  NoTime, SevenDaysAgo(SummaryNow) - 1)]

\* eleven overdue High approvals still pending
ElevenOverdue ==
  [k \in 1..11 |->
     SummaryEvent("GDPR", "High", "Pending Review", "approval",
                  SummaryNow - 1, SevenDaysAgo(SummaryNow))]

\* one Event older than 30 days
TooOld ==
  <<SummaryEvent("GDPR", "High", "Pending Review", "approval",
                 SummaryNow - 1, ThirtyDaysAgo(SummaryNow) - 1)>>

SummaryTables ==
  { drawn \o pad :
      drawn \in UNION { [1..n -> SummaryEvents] : n \in 0..MaxSummaryEvents },
      pad \in {<<>>, SixTypes, ElevenOverdue, TooOld} }

\* project_id LIKE '%project%'
Like(value, project) ==
  \/ value = project
  \/ value = "c10" /\ project = "c1"

Reverse(rows) == [k \in DOMAIN rows |-> rows[Len(rows) + 1 - k]]

\* the query of generate-summary: the answers the DataStore may give, rows
\* of equal created_at in ROWID order or against it.  Only the basicIO file
\* takes project "all" for every project.
SummaryQuery(variant, table, project, regulation, t) ==
  LET matching ==
        SelectSeq(table,
          LAMBDA e : /\ ((variant = "basicIO"
                          /\ project \in {"all", "All", "ALL"})
                         \/ Like(e.project_id, project))
                     /\ (regulation = "all" \/ e.regulation = regulation)
                     /\ e.created_at >= ThirtyDaysAgo(t))
  IN { OrderByCreatedAtDesc(matching),
       OrderByCreatedAtDesc(Reverse(matching)) }

\* a variant that has no deduction for overdue deadlines
DetailedScoreIgnoringDeadlines(events, t) ==
  IF Len(events) = 0 THEN 500
  ELSE LET highRiskPending ==
             Len(SelectSeq(events,
               LAMBDA e : IsHighRisk(e) /\ e.status = "Pending Review"))
           eventTypes == { events[i].event_type : i \in DOMAIN events }
           recentEvents ==
             Len(SelectSeq(events,
               LAMBDA e : e.created_at >= SevenDaysAgo(t)))
       IN Max(0, Min(1000,
            1000 - highRiskPending * 50
            + 10 * Min(Cardinality(eventTypes) * 2, 10)
            + Min(RoundDiv(100 * recentEvents, Len(events)), 100)))

\* a variant without the clamp to [0, 100]
DetailedScoreUnclamped(events, t) ==
  IF Len(events) = 0 THEN 500
  ELSE LET highRiskPending ==
             Len(SelectSeq(events,
               LAMBDA e : IsHighRisk(e) /\ e.status = "Pending Review"))
           overdue ==
             Len(SelectSeq(events,
               LAMBDA e : /\ e.deadline # NoTime
                          /\ e.deadline < t
                          /\ e.status = "Pending Review"))
           eventTypes == { events[i].event_type : i \in DOMAIN events }
           recentEvents ==
             Len(SelectSeq(events,
               LAMBDA e : e.created_at >= SevenDaysAgo(t)))
       IN 1000 - highRiskPending * 50 - overdue * 100
          + 10 * Min(Cardinality(eventTypes) * 2, 10)
          + Min(RoundDiv(100 * recentEvents, Len(events)), 100)

\* The score in tenths: the function rounds to one decimal.
calculateDetailedComplianceScore(events, t) ==
  IF Len(events) = 0 THEN 500
  ELSE LET highRiskPending ==
             Len(SelectSeq(events,
               LAMBDA e : IsHighRisk(e) /\ e.status = "Pending Review"))
           overdue ==
             Len(SelectSeq(events,
               LAMBDA e : /\ e.deadline # NoTime
                          /\ e.deadline < t
                          /\ e.status = "Pending Review"))
           eventTypes == { events[i].event_type : i \in DOMAIN events }
           recentEvents ==
             Len(SelectSeq(events,
               LAMBDA e : e.created_at >= SevenDaysAgo(t)))
       IN Max(0, Min(1000,
            1000 - highRiskPending * 50 - overdue * 100
            + 10 * Min(Cardinality(eventTypes) * 2, 10)
            + Min(RoundDiv(100 * recentEvents, Len(events)), 100)))

InitSummary ==
  /\ now = SummaryNow
  /\ deployed \in {"reqres", "basicIO"}
  /\ compliance_events \in SummaryTables
  /\ compliance_analytics = <<>>
  /\ audit_logs = <<>>
  /\ predict_calls = <<>>
  /\ risk_predictions = <<>>
  /\ reqs = <<>>
  /\ jobs = <<>>
  /\ observed = <<>>
  /\ runs = [r \in Runs |-> NoRun]

\* generate-summary, a whole invocation: query, aggregate, score, answer
AnswerSummary(project, regulation) ==
  /\ \E events \in SummaryQuery(deployed, compliance_events, project,
                                 regulation, now) :
       observed' =
         <<[by |-> "generate-summary",
            events |-> events,
            total_events |-> Len(events),
            compliance_score |->
              calculateDetailedComplianceScore(events, now)]>>
  /\ UNCHANGED <<now, deployed, compliance_events, compliance_analytics,
                 audit_logs, predict_calls, risk_predictions, reqs, jobs,
                 runs>>

\* collectFeatureData's events query, answered to the prediction engine
AnswerFeatureEvents(projectId) ==
  /\ observed' =
       <<[by |-> "collectFeatureData",
          events |-> ProjectEvents(compliance_events, projectId)]>>
  /\ UNCHANGED <<now, deployed, compliance_events, compliance_analytics,
                 audit_logs, predict_calls, risk_predictions, reqs, jobs,
                 runs>>

NextSummary ==
  \/ \E project \in Projects \cup {"all"} :
       \E regulation \in {"all", "GDPR"} : AnswerSummary(project, regulation)
  \/ \E projectId \in Projects : AnswerFeatureEvents(projectId)

SpecSummary == InitSummary /\ [][NextSummary]_vars

SummaryAnswered ==
  /\ observed # <<>>
  /\ observed[1].by = "generate-summary"

Answered == observed[1].events

PendingHighRisk ==
  { k \in DOMAIN Answered :
      /\ Answered[k].risk_level \in {"High", "Critical"}
      /\ Answered[k].status = "Pending Review" }

PendingApprovals ==
  { k \in DOMAIN Answered :
      /\ Answered[k].event_type = "approval"
      /\ Answered[k].status = "Pending Review" }

Overdue ==
  { k \in DOMAIN Answered :
      /\ Answered[k].deadline # NoTime
      /\ Answered[k].deadline < now
      /\ Answered[k].status = "Pending Review" }

DistinctTypes == { Answered[k].event_type : k \in DOMAIN Answered }

Recent7Days ==
  { k \in DOMAIN Answered : Answered[k].created_at >= SevenDaysAgo(now) }

Abs(x) == IF x < 0 THEN -x ELSE x

\* C19 (as stated): the detailed score of a non-empty set of events is
\* clamp(100 - 5*|High or Critical pending| - 3*|pending approvals|
\*       + min(2*|distinct event types|, 10) + 10*recent/total
\*       - 10*|overdue pending|, 0, 100), to the nearest tenth.
\* Both sides are multiplied by 10*total.
C19_DetailedScoreWithApprovalDeduction ==
  (SummaryAnswered /\ Answered # <<>>) =>
    LET total == Len(Answered)
        stated ==
          Clamp((1000 - 50 * Cardinality(PendingHighRisk)
                      - 30 * Cardinality(PendingApprovals)
                      + 10 * Min(2 * Cardinality(DistinctTypes), 10)
                      - 100 * Cardinality(Overdue)) * total
                + 100 * Cardinality(Recent7Days),
                0, 1000 * total)
    IN 2 * Abs(observed[1].compliance_score * total - stated) <= total

\* C19 (amended): the detailed score is 50 for no events and otherwise
\* clamp(100 - 5*|High or Critical pending|
\*       + min(2*|distinct event types|, 10) + 10*recent/total
\*       - 10*|overdue pending|, 0, 100), to the nearest tenth: pending
\* approvals are not deducted.
C19_DetailedScoreWithoutApprovalDeduction ==
  SummaryAnswered =>
    IF Answered = <<>> THEN observed[1].compliance_score = 500
    ELSE LET total == Len(Answered)
             exact ==
               Clamp((1000 - 50 * Cardinality(PendingHighRisk)
                           + 10 * Min(2 * Cardinality(DistinctTypes), 10)
                           - 100 * Cardinality(Overdue)) * total
                     + 100 * Cardinality(Recent7Days),
                     0, 1000 * total)
         IN 2 * Abs(observed[1].compliance_score * total - exact) <= total

\* a summary whose score is off the clamps and off the whole numbers, over
\* events with a pending approval and an overdue one
C19_Witness ==
  /\ SummaryAnswered
  /\ observed[1].compliance_score \in 1..999
  /\ observed[1].compliance_score % 10 # 0
  /\ PendingApprovals # {}
  /\ Overdue # {}

\* C20: the events answered by generate-summary's query and by
\* collectFeatureData's query are in ascending order of created_at.
C20_QueriesAscending ==
  observed # <<>> =>
    \A i, k \in DOMAIN Answered :
      i < k => Answered[i].created_at <= Answered[k].created_at

(* ======================= getSeverity on its own ======================== *)
\* observed holds a probability in percent, then also what getSeverity
\* answers for it.
InitSeverity ==
  /\ now = 0
  /\ deployed \in {"reqres", "basicIO"}
  /\ compliance_events = <<>>
  /\ compliance_analytics = <<>>
  /\ audit_logs = <<>>
  /\ predict_calls = <<>>
  /\ risk_predictions = <<>>
  /\ reqs = <<>>
  /\ jobs = <<>>
  /\ observed \in { <<probability>> : probability \in 0..100 }
  /\ runs = [r \in Runs |-> NoRun]

AnswerSeverity ==
  /\ Len(observed) = 1
  /\ observed' = Append(observed, getSeverity(observed[1]))
  /\ UNCHANGED <<now, deployed, compliance_events, compliance_analytics,
                 audit_logs, predict_calls, risk_predictions, reqs, jobs,
                 runs>>

NextSeverity == AnswerSeverity

SpecSeverity == InitSeverity /\ [][NextSeverity]_vars

\* C22: getSeverity answers Critical from 0.85 on, else High from 0.70 on,
\* else Medium from 0.50 on, else Low; 0.85, 0.70 and 0.50 themselves are
\* Critical, High and Medium.
C22_SeverityClosedLowerBounds ==
  Len(observed) = 2 =>
    /\ (observed[1] >= 85) <=> (observed[2] = "Critical")
    /\ (observed[1] >= 70 /\ observed[1] < 85) <=> (observed[2] = "High")
    /\ (observed[1] >= 50 /\ observed[1] < 70) <=> (observed[2] = "Medium")
    /\ (observed[1] < 50) <=> (observed[2] = "Low")
    /\ observed[1] = 85 => observed[2] = "Critical"
    /\ observed[1] = 70 => observed[2] = "High"
    /\ observed[1] = 50 => observed[2] = "Medium"

C22_Witness == observed = <<70, "High">>

(* =================== the predictors on a feature vector ================ *)
\* observed holds a feature vector, then also what the prediction model
\* answers for it.  team_workload, historical_delay_rate and probabilities
\* are in percent, compliance_event_velocity in events per 7 days.
FeatureVectors ==
  [team_response_time : {48, 72, 73},
   dependency_chain_length : {3, 4, 5},
   days_until_deadline : {6, 7, 13, 14},
   pending_approvals : {0, 5, 6},
   team_workload : {70, 85, 86, 90, 91},
   historical_delay_rate : {30, 40, 41},
   compliance_event_velocity : {0, 3, 4, 6, 7},
   high_risk_count : {0}]

DaysAhead == {3, 7}

InitModel ==
  /\ now = 0
  /\ deployed \in {"reqres", "basicIO"}
  /\ compliance_events = <<>>
  /\ compliance_analytics = <<>>
  /\ audit_logs = <<>>
  /\ predict_calls = <<>>
  /\ risk_predictions = <<>>
  /\ reqs = <<>>
  /\ jobs = <<>>
  /\ observed \in { <<features>> : features \in FeatureVectors }
  /\ runs = [r \in Runs |-> NoRun]

\* runPredictionModel(features, daysAhead) and calculateOverallRiskScore of
\* what it returns
AnswerModel(daysAhead) ==
  /\ Len(observed) = 1
  /\ LET features == observed[1]
         predictions == runPredictionModel(features, daysAhead, now)
     IN observed' =
          Append(observed,
            [probabilities |->
               [approval_delay |-> predictApprovalDelay(features),
                dependency_bottleneck |->
                  predictDependencyBottleneck(features),
                documentation_gap |-> predictDocumentationGap(features),
                resource_constraint |-> predictResourceConstraint(features)],
             risks |-> predictions,
             overall_risk_score |-> calculateOverallRiskScore(predictions)])
  /\ UNCHANGED <<now, deployed, compliance_events, compliance_analytics,
                 audit_logs, predict_calls, risk_predictions, reqs, jobs,
                 runs>>

NextModel == \E daysAhead \in DaysAhead : AnswerModel(daysAhead)

SpecModel == InitModel /\ [][NextModel]_vars

Increment(triggered, percent) == IF triggered THEN percent ELSE 0

Capped(percent) == IF percent > 100 THEN 100 ELSE percent

\* the sum of the increments of the triggered indicators, by predictor
IncrementSums(f) ==
  [approval_delay |->
     Increment(f.team_response_time > 72, 35)
     + Increment(f.pending_approvals > 5, 30)
     + Increment(f.days_until_deadline < 7, 25),
   dependency_bottleneck |->
     Increment(f.dependency_chain_length > 4, 40)
     + Increment(f.team_workload > 85, 35)
     + Increment(f.historical_delay_rate > 40, 20),
   documentation_gap |->
     Increment(2 * f.compliance_event_velocity < 7, 45)
     + Increment(f.days_until_deadline < 14
                 /\ f.compliance_event_velocity < 7, 30),
   resource_constraint |->
     Increment(f.team_workload > 90, 50)]

Predictors ==
  {"approval_delay", "dependency_bottleneck", "documentation_gap",
   "resource_constraint"}

\* C21: each predictor's probability is the sum of the increments of its
\* triggered indicators capped at 1.0, and runPredictionModel emits the
\* predictor's prediction, with that probability, exactly when the
\* probability is greater than 0.3.
C21_SumCappedAndThreshold ==
  Len(observed) = 2 =>
    \A c \in Predictors :
      /\ observed[2].probabilities[c] = Capped(IncrementSums(observed[1])[c])
      /\ (\E k \in DOMAIN observed[2].risks :
            observed[2].risks[k].category = c)
         <=> observed[2].probabilities[c] > 30
      /\ \A k \in DOMAIN observed[2].risks :
           observed[2].risks[k].category = c =>
             observed[2].risks[k].probability = observed[2].probabilities[c]

\* approval-delay at exactly 0.3 left out, next to an emitted prediction
\* made of three increments
C21_Witness ==
  /\ Len(observed) = 2
  /\ observed[2].probabilities.approval_delay = 30
  /\ observed[2].probabilities.dependency_bottleneck = 95
  /\ \A k \in DOMAIN observed[2].risks :
       observed[2].risks[k].category # "approval_delay"
  /\ \E k \in DOMAIN observed[2].risks :
       observed[2].risks[k].category = "dependency_bottleneck"

\* C23: with every other feature held, a feature vector with at least as
\* many pending_approvals has at least the approval-delay probability.
C23_MonotoneInPendingApprovals ==
  Len(observed) = 2 =>
    \A more \in FeatureVectors :
      (/\ more.pending_approvals >= observed[1].pending_approvals
       /\ more = [observed[1] EXCEPT
                    !.pending_approvals = more.pending_approvals])
      => observed[2].probabilities.approval_delay
           <= predictApprovalDelay(more)

\* a vector without pending approvals whose probability is strictly below
\* that of the same vector with six
C23_Witness ==
  /\ Len(observed) = 2
  /\ observed[1].pending_approvals = 0
  /\ observed[2].probabilities.approval_delay
       < predictApprovalDelay([observed[1] EXCEPT !.pending_approvals = 6])

\* C24: the overall risk score (here in tenths) is the mean of the emitted
\* probabilities times 100, rounded to one decimal, and 0 when nothing is
\* emitted.
C24_OverallScoreIsMeanTimes100 ==
  Len(observed) = 2 =>
    LET risks == observed[2].risks
        sum == SumOf([k \in DOMAIN risks |-> risks[k].probability])
    IN IF risks = <<>> THEN observed[2].overall_risk_score = 0
       ELSE 2 * Abs(observed[2].overall_risk_score * Len(risks) - 10 * sum)
              <= Len(risks)

(* =================== predict-risks runs over given tables ============== *)
\* The tables hold what earlier store calls left; predict-risks is called
\* and what each call answered and inserted is kept in observed.
MaxRunEvents == 2
MaxPredictRuns == 2

RunEvents ==
  { RowBasicIO(Payload("c1", "m1", "GDPR", "High", "approval"), 0),
    RowBasicIO(Payload("c1", "m1", "GDPR", "Low", "decision"), 0) }

\* six approvals still pending
SixPending ==
  [k \in 1..6 |-> RowBasicIO(Payload("c1", "m1", "GDPR", "Low", "approval"), 0)]

RunTables ==
  { drawn \o pad :
      drawn \in UNION { [1..n -> RunEvents] : n \in 0..MaxRunEvents },
      pad \in {<<>>, SixPending} }

\* the rollup table next to a table of Events: empty, or the row
\* updateAnalytics wrote for them
RunRollups(events) ==
  {<<>>} \cup (IF events = <<>> THEN {}
               ELSE {<<AnalyticsData(TodaysEvents(events, "c1", 0), "c1", 0)>>})

InitRuns ==
  /\ now = 0
  /\ deployed \in {"reqres", "basicIO"}
  /\ compliance_events \in RunTables
  /\ compliance_analytics \in RunRollups(compliance_events)
  /\ audit_logs = <<>>
  /\ predict_calls = <<>>
  /\ risk_predictions = <<>>
  /\ reqs = <<>>
  /\ jobs = <<>>
  /\ observed = <<>>
  /\ runs = [r \in Runs |-> NoRun]

\* predict-risks, a whole invocation, and what its caller and the table got
AnswerPredictRisks(projectId, daysAhead) ==
  /\ Len(observed) < MaxPredictRuns
  /\ \E outcome \in PredictRisksOutcomes(compliance_events,
                      compliance_analytics, projectId, daysAhead, now) :
       /\ risk_predictions' = risk_predictions \o outcome.rows
       /\ observed' = Append(observed,
            [at |-> now, project_id |-> projectId, days_ahead |-> daysAhead,
             response |-> outcome.response, rows |-> outcome.rows])
  /\ UNCHANGED <<now, deployed, compliance_events, compliance_analytics,
                 audit_logs, predict_calls, reqs, jobs, runs>>

NextRuns ==
  \/ Tick
  \/ \E projectId \in Projects : \E daysAhead \in DaysAhead :
       AnswerPredictRisks(projectId, daysAhead)

SpecRuns == InitRuns /\ [][NextRuns]_vars

\* C25: two predict-risks runs for the same project, horizon and clock
\* reading over the same tables answer the same and insert the same rows,
\* field by field.
C25_RunsReproducible ==
  \A i, k \in DOMAIN observed :
    (/\ observed[i].at = observed[k].at
     /\ observed[i].project_id = observed[k].project_id
     /\ observed[i].days_ahead = observed[k].days_ahead
     /\ observed[i].response.status = 200
     /\ observed[k].response.status = 200)
    => /\ observed[i].response = observed[k].response
       /\ observed[i].rows = observed[k].rows

\* C26: for a project without Events and without Rollups a run answers an
\* empty list of predictions and inserts no row.
C26_NoHistoryNoPredictions ==
  \A k \in DOMAIN observed :
    (/\ ProjectEvents(compliance_events, observed[k].project_id) = <<>>
     /\ ProjectAnalytics(compliance_analytics, observed[k].project_id) = <<>>
     /\ observed[k].response.status = 200)
    => /\ observed[k].response.risks = <<>>
       /\ observed[k].rows = <<>>

(* ================== what an ingest call answers and leaves ============= *)
RowInserted == Len(compliance_events') > Len(compliance_events)

CallAnswered == Len(reqs') > Len(reqs)

\* C27: a call that inserted the event row answers success with the row's
\* event_id and the row is stored, whatever became of updateAnalytics and of
\* the triggered prediction; no later step takes the row away.
C27_InsertedMeansSuccess ==
  [][ /\ RowInserted =>
           /\ Len(compliance_events') = Len(compliance_events) + 1
           /\ reqs' = Append(reqs, reqs'[Len(reqs')])
           /\ reqs'[Len(reqs')].success
           /\ reqs'[Len(reqs')].event_id =
                compliance_events'[Len(compliance_events')].event_id
      /\ \A k \in DOMAIN compliance_events :
           /\ k \in DOMAIN compliance_events'
           /\ compliance_events'[k] = compliance_events[k] ]_vars

\* a high-risk Event stored and answered with success although its
\* updateAnalytics wrote nothing and no prediction came of the trigger
C27_Witness ==
  /\ Len(compliance_events) = 1
  /\ IsHighRisk(compliance_events[1])
  /\ Len(reqs) = 1
  /\ reqs[1].success
  /\ reqs[1].event_id = compliance_events[1].event_id
  /\ compliance_analytics = <<>>
  /\ predict_calls # <<>>
  /\ risk_predictions = <<>>

\* C28: a call that answers success=false has stored no Event and has
\* started neither updateAnalytics nor a prediction.
C28_FailedInsertLeavesNothing ==
  [][ (CallAnswered /\ ~reqs'[Len(reqs')].success) =>
        /\ compliance_events' = compliance_events
        /\ compliance_analytics' = compliance_analytics
        /\ predict_calls' = predict_calls
        /\ jobs' = jobs ]_vars

\* a payload with channel_id and message_id answered with failure: the
\* insert threw
C28_Witness ==
  /\ Len(reqs) = 1
  /\ ~reqs[1].success
  /\ ~Falsy(reqs[1].channel_id)
  /\ ~Falsy(reqs[1].message_id)
  /\ compliance_events = <<>>
  /\ compliance_analytics = <<>>
  /\ predict_calls = <<>>

\* C29: every step leaves every stored Event as it was, and a step that
\* writes to risk_predictions writes neither to compliance_events nor to
\* compliance_analytics.
C29_EventsImmutable ==
  [][ /\ \A k \in DOMAIN compliance_events :
           /\ k \in DOMAIN compliance_events'
           /\ compliance_events'[k] = compliance_events[k]
      /\ risk_predictions' # risk_predictions =>
           /\ compliance_events' = compliance_events
           /\ compliance_analytics' = compliance_analytics ]_vars

\* Events, a rollup, a prediction row and an audit record side by side
C29_Witness ==
  /\ Len(compliance_events) >= 2
  /\ compliance_analytics # <<>>
  /\ risk_predictions # <<>>
  /\ audit_logs # <<>>

\* C30: any two stored Events have different event_ids.
C30_DistinctEventIds ==
  \A i, k \in DOMAIN compliance_events :
    i # k => compliance_events[i].event_id # compliance_events[k].event_id

(* ------------------------------ the Cliq bot --------------------------- *)
\* handleMessage of the bot, a whole invocation.  The services it calls over
\* HTTP answer as the environment chooses; store-compliance-event is the
\* deployed file of this module and runs inside the call.  `observed` keeps,
\* per handled message, the calls it made, its answer, and the ROWID of the
\* Event its store call inserted (0: none).
MaxMessages == 2

\* request.body; message.text as the pieces startsWith looks at, mentions
\* as whether it includes bot.id
BotRequests ==
  [text : { <<"hello">>, <<"/compliance-", "help">>, <<"/compliance">> },
   id : {"m1"}, channel_id : {"c1"}, user_id : {"bot123", "user1"},
   bot_id : {"bot123"}, mentions : BOOLEAN]

\* response.data.monitored of check-monitoring, or the call threw
MonitoringAnswers == {"true", "false", Undefined, "failed"}

\* extractedData.entities of skills/extract (the value of each entity,
\* Undefined when the entity is absent), or the call threw
ZiaAnswers ==
  [threw : {FALSE},
   compliance_event : {Undefined, "approval"},
   regulation_type : {Undefined},
   risk_level : {Undefined, "High", "Critical"}]
  \cup { [threw |-> TRUE, compliance_event |-> Undefined,
           regulation_type |-> Undefined, risk_level |-> Undefined] }

StartsWith(text, prefix) == text # <<>> /\ Head(text) = prefix

\* a variant that handles the bot's own messages like any other
IsOwnMessageNever(request) == FALSE

\* user.id === bot.id
IsOwnMessage(request) == request.user_id = request.bot_id

\* a variant that takes a failed check as monitored
isChannelMonitoredFailOpen(answer) == answer \notin {"false", Undefined}

\* isChannelMonitored: response.data.monitored, false when the call threw;
\* the caller tests it for truthiness
isChannelMonitored(answer) ==
  IF answer = "failed" THEN FALSE ELSE answer = "true"

\* the complianceEvent object posted to store-compliance-event
ComplianceEvent(request, entities, t) ==
  [channel_id |-> request.channel_id,
   message_id |-> request.id,
   project_id |-> Undefined,
   regulation |-> OrElse(entities.regulation_type, "General"),
   risk_level |-> OrElse(entities.risk_level, "Low"),
   event_type |-> entities.compliance_event,
   timestamp |-> t,
   user_id |-> request.user_id,
   user_name |-> "alice",
   message_text |-> "text",
   evidence_url |-> Undefined]

\* processComplianceEvent: the calls it makes, the event it posts, and
\* whether it threw.  axios rejects on the 500 of the req/res file; the
\* basicIO file answers its failures with a JSON text and no error status.
processComplianceEvent(request, zia, variant, inserted, alerted, t) ==
  LET none == [calls |-> <<"extract">>, event |-> NoPayload, threw |-> FALSE]
  IN IF zia.threw THEN [none EXCEPT !.threw = TRUE]
     ELSE IF Falsy(zia.compliance_event) THEN none
     ELSE LET posted ==
                [calls |-> <<"extract", "store-compliance-event">>,
                 event |-> ComplianceEvent(request, zia, t),
                 threw |-> (variant = "reqres" /\ ~inserted)]
          IN IF posted.threw THEN posted
             ELSE IF zia.risk_level = "High"
                  THEN [posted EXCEPT !.calls = Append(@, "send-alert"),
                                      !.threw = ~alerted]
                  ELSE posted

BotSuccess == [success |-> "true", text |-> Undefined]
BotFailure == [success |-> "false", text |-> Undefined]
CommandReply == [success |-> Undefined, text |-> "command"]
MentionReply == [success |-> Undefined, text |-> "mention"]

\* handleMessage: the calls it makes in order, the event it posts to the
\* store (NoPayload: none) and what it returns
handleMessage(request, answer, zia, variant, inserted, alerted, t) ==
  IF IsOwnMessage(request)
  THEN [calls |-> <<>>, event |-> NoPayload, result |-> BotSuccess]
  ELSE LET isMonitored == isChannelMonitored(answer)
           extraction ==
             IF isMonitored
             THEN processComplianceEvent(request, zia, variant, inserted,
                                         alerted, t)
             ELSE [calls |-> <<>>, event |-> NoPayload, threw |-> FALSE]
           calls == <<"check-monitoring">> \o extraction.calls
       IN IF extraction.threw
          THEN [calls |-> calls, event |-> extraction.event,
                result |-> BotFailure]
          ELSE IF StartsWith(request.text, "/compliance-")
               THEN [calls |-> Append(calls, "handleCommand"),
                     event |-> extraction.event, result |-> CommandReply]
               ELSE IF request.mentions
                    THEN [calls |-> Append(calls, "handleMention"),
                          event |-> extraction.event, result |-> MentionReply]
                    ELSE [calls |-> calls, event |-> extraction.event,
                          result |-> BotSuccess]

Called(handled, service) ==
  \E i \in DOMAIN handled.calls : handled.calls[i] = service

\* One handled message, with the answers its calls were given ("none": the
\* service was not called)
Handled(request, handled, answer, zia, rowid) ==
  [request |-> request,
   calls |-> handled.calls,
   result |-> handled.result,
   answer |-> IF Called(handled, "check-monitoring") THEN answer ELSE "none",
   zia |-> IF Called(handled, "extract") THEN zia
           ELSE [threw |-> FALSE, compliance_event |-> "none",
                 regulation_type |-> "none", risk_level |-> "none"],
   event |-> rowid]

\* One message delivered to the bot.
HandleMessage(request) ==
  /\ Len(observed) < MaxMessages
  /\ \E answer \in MonitoringAnswers, zia \in ZiaAnswers,
        inserted \in BOOLEAN, alerted \in BOOLEAN :
       LET handled == handleMessage(request, answer, zia, deployed,
                                    inserted, alerted, now)
           req == BodyRequest(handled.event)
           eventData == IF deployed = "basicIO" THEN DecodeBasicIO(req)
                        ELSE DecodeReqRes(req)
           row == IF deployed = "basicIO" THEN RowBasicIO(eventData, now)
                  ELSE RowReqRes(eventData, now)
       IN IF ~Called(handled, "store-compliance-event")
          THEN /\ observed' =
                    Append(observed, Handled(request, handled, answer, zia, 0))
               /\ UNCHANGED <<compliance_events, compliance_analytics,
                              predict_calls, reqs>>
          ELSE IF inserted
               THEN /\ compliance_events' =
                         InsertEventRow(compliance_events, row)
                    /\ compliance_analytics' \in
                         UpdateAnalyticsOutcomes(compliance_events',
                           compliance_analytics, row.project_id, DayOf(now))
                    /\ predict_calls' = TriggerIfHighRisk(predict_calls, row)
                    /\ reqs' = Append(reqs, SuccessAnswer(eventData, row))
                    /\ observed' =
                         Append(observed,
                                Handled(request, handled, answer, zia,
                                        Len(compliance_events')))
               ELSE /\ reqs' = Append(reqs, ErrorAnswer(eventData))
                    /\ observed' =
                         Append(observed,
                                Handled(request, handled, answer, zia, 0))
                    /\ UNCHANGED <<compliance_events, compliance_analytics,
                                   predict_calls>>
  /\ UNCHANGED <<now, deployed, audit_logs, risk_predictions, jobs, runs>>

NextBot == \E request \in BotRequests : HandleMessage(request)

SpecBot == Init /\ [][NextBot]_vars

\* C31: every Event a bot message stored with risk_level High or Critical
\* has had both notifications by the time the handler returns: predict-risks
\* requested for its project by the store handler, and a risk alert sent by
\* the bot while handling that message.
C31_HighRiskNotified ==
  \A i \in DOMAIN observed :
    (observed[i].event # 0 /\ IsHighRisk(compliance_events[observed[i].event]))
    => /\ \E k \in DOMAIN predict_calls :
            predict_calls[k] = compliance_events[observed[i].event].project_id
       /\ Called(observed[i], "send-alert")

\* C32: a message whose sender is the bot itself is answered {success: true}
\* with no call made: no monitoring check, no extraction, no store call, no
\* command or mention handler; the store's tables and answers stay as they
\* were.
C32_OwnMessagesIgnored ==
  [][ (Len(observed') = Len(observed) + 1
       /\ observed'[Len(observed')].request.user_id
            = observed'[Len(observed')].request.bot_id)
      => /\ observed'[Len(observed')].result = BotSuccess
         /\ observed'[Len(observed')].calls = <<>>
         /\ UNCHANGED <<compliance_events, compliance_analytics,
                        predict_calls, reqs>> ]_vars

\* the bot's own message was a command that mentions the bot
C32_Witness ==
  \E i \in DOMAIN observed :
    /\ observed[i].request.user_id = observed[i].request.bot_id
    /\ observed[i].request.text = <<"/compliance-", "help">>
    /\ observed[i].request.mentions
    /\ observed[i].result = BotSuccess

NotMonitored(handled) ==
  /\ handled.request.user_id # handled.request.bot_id
  /\ handled.answer # "true"

\* C39: the store is called only for a message whose monitoring check
\* answered true and whose extraction holds a compliance_event entity; a
\* check that failed makes no extraction and no store call; and a
\* "/compliance-" command in a channel that is not monitored is answered by
\* handleCommand.
C39_StoreOnlyWhenMonitoredAndExtracted ==
  \A i \in DOMAIN observed :
    /\ Called(observed[i], "store-compliance-event")
         => /\ observed[i].answer = "true"
            /\ ~observed[i].zia.threw
            /\ observed[i].zia.compliance_event \notin {Undefined, "none"}
    /\ observed[i].answer = "failed"
         => /\ ~Called(observed[i], "extract")
            /\ ~Called(observed[i], "store-compliance-event")
    /\ (NotMonitored(observed[i])
        /\ observed[i].request.text = <<"/compliance-", "help">>)
         => /\ Called(observed[i], "handleCommand")
            /\ observed[i].result = CommandReply

\* one message was stored, and a command arrived while the check failed
C39_Witness ==
  /\ \E i \in DOMAIN observed : observed[i].event # 0
  /\ \E i \in DOMAIN observed :
       /\ observed[i].answer = "failed"
       /\ observed[i].request.text = <<"/compliance-", "help">>
       /\ Called(observed[i], "handleCommand")

(* ---------------- audit export over a stored period ------------------- *)
\* The cron fires on day 1 over the Events that day 0 left in the table.
\* project_id and regulation are free text of the callers; "a::b" holds
\* the separator of the partition key.
MaxAuditEvents == 2

\* the row the deployed file stores at clock reading t for a payload with
\* that project_id and regulation
AuditEvent(variant, projectId, regulation, t) ==
  LET eventData == [Payload("c1", "m1", regulation, "Low", "approval")
                      EXCEPT !.project_id = projectId]
  IN IF variant = "basicIO" THEN RowBasicIO(eventData, t)
     ELSE RowReqRes(eventData, t)

\* the tables day 0 can leave: one Event per clock reading, in ROWID order
AuditTables(variant) ==
  UNION { { [i \in 1..n |-> AuditEvent(variant, p[i], g[i], i - 1)] :
              p \in [1..n -> {"a", "a::b"}], g \in [1..n -> {"b", "GDPR"}] } :
          n \in 1..MaxAuditEvents }

InitAudit ==
  /\ now = TicksPerDay
  /\ deployed \in {"reqres", "basicIO"}
  /\ compliance_events \in AuditTables(deployed)
  /\ compliance_analytics = <<>>
  /\ audit_logs = <<>>
  /\ predict_calls = <<>>
  /\ risk_predictions = <<>>
  /\ reqs = <<>>
  /\ jobs = <<>>
  /\ observed = <<>>
  /\ runs = [r \in Runs |-> NoRun]

NextAudit ==
  \/ Tick
  \/ \E r \in Runs : AuditStart(r)
  \/ \E r \in Runs : AuditGetLastHash(r)
  \/ \E r \in Runs : AuditGenerate(r)

SpecAudit == InitAudit /\ [][NextAudit]_vars

\* the stored Event with that event_id
EventOfId(eventId) ==
  compliance_events[CHOOSE k \in DOMAIN compliance_events :
                      compliance_events[k].event_id = eventId]

\* C33: in every Audit Record, event_ids is in created_at ascending order,
\* ties in event_id ascending order.
C33_EventIdsByCreatedAt ==
  \A k \in DOMAIN audit_logs :
    \A i, j \in DOMAIN audit_logs[k].event_ids :
      i < j =>
        LET a == EventOfId(audit_logs[k].event_ids[i])
            b == EventOfId(audit_logs[k].event_ids[j])
        IN \/ a.created_at < b.created_at
           \/ a.created_at = b.created_at /\ a.event_id < b.event_id

\* the partition keys of the records a run wrote, in the order written
WrittenKeys(run) ==
  [i \in DOMAIN run.written |->
     <<audit_logs[run.written[i]].project_id,
       audit_logs[run.written[i]].regulation>>]

Completed(run) ==
  run.pc = "done" /\ run.result[1].success /\ run.written # <<>>

\* C34: two completed runs over the same period (the same Events) write
\* their partitions in the same order.
C34_PartitionOrderStable ==
  \A r, q \in Runs :
    (Completed(runs[r]) /\ Completed(runs[q]) /\ runs[r].date = runs[q].date)
    => WrittenKeys(runs[r]) = WrittenKeys(runs[q])

\* C36: after a completed run every Event of its period is in the event_ids
\* of exactly one of the run's Audit Records, and that record carries the
\* Event's project_id and regulation.
C36_ExactPartition ==
  \A r \in Runs :
    Completed(runs[r]) =>
      \A e \in DOMAIN compliance_events :
        DayOf(compliance_events[e].created_at) = runs[r].date =>
          LET covering ==
                { i \in DOMAIN runs[r].written :
                    \E j \in DOMAIN audit_logs[runs[r].written[i]].event_ids :
                      audit_logs[runs[r].written[i]].event_ids[j]
                        = compliance_events[e].event_id }
          IN /\ Cardinality(covering) = 1
             /\ \A i \in covering :
                  /\ audit_logs[runs[r].written[i]].project_id
                       = compliance_events[e].project_id
                  /\ audit_logs[runs[r].written[i]].regulation
                       = compliance_events[e].regulation

\* C37: a run that asks for the chain tail while audit_logs holds records
\* does not go on with the genesis value as its previous_hash, whether the
\* tail query answered or failed.
C37_GenesisOnlyWhenEmpty ==
  [][ \A r \in Runs :
        (runs[r].pc = "tail" /\ runs'[r].pc = "loop" /\ audit_logs # <<>>)
        => runs'[r].previousHash # GenesisHash ]_vars

(* ------------------- the order of the predictions ---------------------- *)
\* the place of a predictor in the order runPredictionModel asks them
InsertionRank(category) ==
  CASE category = "approval_delay" -> 1
    [] category = "dependency_bottleneck" -> 2
    [] category = "documentation_gap" -> 3
    [] category = "resource_constraint" -> 4

\* a probability as its double: hundredths, then units of the last place
AsDouble(p) == <<p.probability, ProbabilityUlps(p)>>

GreaterDouble(x, y) == x[1] > y[1] \/ (x[1] = y[1] /\ x[2] > y[2])

\* C35: the predictions runPredictionModel returns are in probability
\* descending order, and of two with equal probability the one whose
\* predictor is asked first comes first.
C35_SortedDescendingStable ==
  Len(observed) = 2 =>
    \A i, j \in DOMAIN observed[2].risks :
      i < j =>
        \/ GreaterDouble(AsDouble(observed[2].risks[i]),
                         AsDouble(observed[2].risks[j]))
        \/ /\ AsDouble(observed[2].risks[i]) = AsDouble(observed[2].risks[j])
           /\ InsertionRank(observed[2].risks[i].category)
                < InsertionRank(observed[2].risks[j].category)

\* three predictions out of insertion order, two of them with equal
\* probability
C35_Witness ==
  /\ Len(observed) = 2
  /\ Len(observed[2].risks) = 3
  /\ observed[2].risks[1].category = "resource_constraint"
  /\ observed[2].risks[2].category = "approval_delay"
  /\ observed[2].risks[3].category = "dependency_bottleneck"
  /\ observed[2].risks[2].probability = observed[2].risks[3].probability

(* ---------------------- the two compliance scores ---------------------- *)
\* calculateComplianceScore over counts and calculateDetailedComplianceScore
\* over lists of events, each asked once.
MaxScoreCount == 21

ScoreQuestions ==
  { [by |-> "calculateComplianceScore", counts |-> c, events |-> <<>>] :
      c \in [totalEvents : 0..MaxScoreCount,
             highRiskCount : 0..MaxScoreCount,
             pendingApprovals : 0..MaxScoreCount] }
  \cup { [by |-> "calculateDetailedComplianceScore",
          counts |-> [totalEvents |-> 0, highRiskCount |-> 0,
                      pendingApprovals |-> 0],
          events |-> events] : events \in SummaryTables }

InitScores ==
  /\ now = SummaryNow
  /\ deployed \in {"reqres", "basicIO"}
  /\ compliance_events = <<>>
  /\ compliance_analytics = <<>>
  /\ audit_logs = <<>>
  /\ predict_calls = <<>>
  /\ risk_predictions = <<>>
  /\ reqs = <<>>
  /\ jobs = <<>>
  /\ observed \in { <<question>> : question \in ScoreQuestions }
  /\ runs = [r \in Runs |-> NoRun]

\* the score, and how many of its units make one point
AnswerComplianceScore ==
  /\ Len(observed) = 1
  /\ observed[1].by = "calculateComplianceScore"
  /\ observed' =
       Append(observed,
         [score |-> calculateComplianceScore(observed[1].counts.totalEvents,
                      observed[1].counts.highRiskCount,
                      observed[1].counts.pendingApprovals),
          unit |-> 1])
  /\ UNCHANGED <<now, deployed, compliance_events, compliance_analytics,
                 audit_logs, predict_calls, risk_predictions, reqs, jobs,
                 runs>>

AnswerDetailedScore ==
  /\ Len(observed) = 1
  /\ observed[1].by = "calculateDetailedComplianceScore"
  /\ observed' =
       Append(observed,
         [score |-> calculateDetailedComplianceScore(observed[1].events, now),
          unit |-> 10])
  /\ UNCHANGED <<now, deployed, compliance_events, compliance_analytics,
                 audit_logs, predict_calls, risk_predictions, reqs, jobs,
                 runs>>

NextScores ==
  \/ AnswerComplianceScore
  \/ AnswerDetailedScore

SpecScores == InitScores /\ [][NextScores]_vars

\* C38: whatever the counts and whatever the list of events, the empty list
\* included, the score returned is in the closed range [0, 100].
C38_ScoresWithinRange ==
  Len(observed) = 2 =>
    /\ observed[2].score >= 0
    /\ observed[2].score <= 100 * observed[2].unit

\* eleven overdue High approvals would take the detailed score below zero
C38_Witness ==
  /\ Len(observed) = 2
  /\ observed[1].by = "calculateDetailedComplianceScore"
  /\ Len(observed[1].events) >= 11
  /\ \A k \in DOMAIN observed[1].events :
       /\ observed[1].events[k].risk_level = "High"
       /\ observed[1].events[k].status = "Pending Review"
       /\ observed[1].events[k].deadline # NoTime
  /\ observed[2].score = 0

====
